---- MODULE Spec2Model ----
(***************************************************************************)
(* A model of jupytutor: the rule-based cell configuration resolver        *)
(* (src/src/helpers/config-rules.ts, applyConfigRules and                  *)
(* evaluatePredicate), the remote context retriever                        *)
(* (GlobalNotebookContextRetrieval, same file) and the plugin glue of      *)
(* src/src/index.ts.                                                       *)
(*                                                                         *)
(* Strings are sequences of tokens: "" is <<>>, concatenation is \o and    *)
(* String.prototype.includes is containment of a contiguous run of tokens. *)
(***************************************************************************)
EXTENDS Integers, Sequences, FiniteSets, TLC

VARIABLES
    \* ---- rule resolver (applyConfigRules) ----
    notebook,       \* the notebook model: a sequence of cells
    cellIndex,      \* the index applyConfigRules is called with
    configRules,    \* the ordered rule list
    rulesConfig,    \* mergedConfig when the rule loop has ended (line 57)
    cellConfig,     \* what applyConfigRules returned
    rulePc,         \* "input" | "resolved"
    \* ---- predicate evaluator (evaluatePredicate) ----
    predicate,      \* the predicate tree under evaluation
    predValue,      \* what evaluatePredicate returned
    predPc,         \* "input" | "evaluated"
    \* ---- mergeRuleConfigs ----
    mergeCurrent,   \* its first argument
    mergeUpdate,    \* its second argument
    mergeOut,       \* what it returned
    mergePc,        \* "input" | "merged"
    \* ---- context retriever (GlobalNotebookContextRetrieval) ----
    retrieverConfig,\* the argument of the constructor
    sourceLinks,    \* this._sourceLinks
    cachedContext,  \* this._context: Null or [text |-> string]
    task,           \* where the async function behind _loadedPromise is:
                    \* "Uninitialized" | "expanding" | "expanded" | "returned"
    timerFired,     \* the setTimeout(resolve, SOFT_TIMEOUT) callback has run
    taskScrape,     \* the scrapeSourceLinks call of line 399
    callerScrape,   \* a scrapeSourceLinks call made from outside the class
    reader,         \* a caller of getContext / getSourceLinks
    writes,         \* in how many of its steps the task has assigned
                    \* _sourceLinks and _context
    \* ---- plugin (index.ts) and store ----
    nbMetadata,     \* notebookModel.getMetadata('jupytutor')
    storeEntry,     \* notebookStateByPath[notebookPath]: NotRun when absent
    attached,       \* attachNotebook has run for the notebook
    listening,      \* the metadataChanged slot and the store subscription
                    \* of attachNotebookMetadata are connected
    containers,     \* for each cell, the .jp-jupytutor-container elements
                    \* in its node
    executions,     \* how many NotebookActions.executed events were handled
    lastExecuted,   \* what the handler did with the last of them, and
                    \* whether it removed a container when it attached
    syncLog,        \* the last change of the metadata with the slot
                    \* connected, or of the store's notebookConfig: what
                    \* started it, the calls of setMetadata that followed,
                    \* and whether the chain of listeners came to rest
    \* ---- the store (useJupytutorReactState) called on its own ----
    notebookStateByPath, \* for each path, NotRun or the NotebookState
    storeCall,      \* the last call of a setter and how it ended
    \* ---- expandJupyterBookLinks and its helpers, called on their own ----
    expandInput,    \* the arguments: for expandJupyterBookLinks sourceLinks,
                    \* jupyterbookURLs and, for each book link, what the
                    \* fetch of its page gave; for findJupyterBookLinks
                    \* pageUrl, jupyterbookURL and what the fetch gave; for
                    \* normalizeUrl the url
    expandOut,      \* what the call returned
    expandPc        \* "input" | "returned" for expandJupyterBookLinks,
                    \* "page" | "found" for findJupyterBookLinks,
                    \* "url" | "normalized" for normalizeUrl

ruleVars  == <<notebook, cellIndex, configRules, rulesConfig, cellConfig, rulePc>>
predVars  == <<predicate, predValue, predPc>>
mergeVars == <<mergeCurrent, mergeUpdate, mergeOut, mergePc>>
retrieverVars ==
    <<retrieverConfig, sourceLinks, cachedContext, task, timerFired,
      taskScrape, callerScrape, reader, writes>>
storeVars == <<notebookStateByPath, storeCall>>
pluginVars ==
    <<nbMetadata, storeEntry, attached, listening, containers, executions,
      lastExecuted, syncLog, storeVars>>
expandVars == <<expandInput, expandOut, expandPc>>
vars      == <<ruleVars, predVars, mergeVars, retrieverVars, pluginVars,
               expandVars>>

\* JavaScript's null, and the value of a result before the call has run
Null   == [null |-> TRUE]
NotRun == [notRun |-> TRUE]

Range(s) == {s[i] : i \in DOMAIN s}

SeqsUpTo(S, n) == UNION {[1..k -> S] : k \in 0..n}

-----------------------------------------------------------------------------
(* Bounds of the model.                                                    *)

MaxCells   == 2     \* cells in a notebook
MaxRules   == 2     \* rules in a rule list
MaxOffset  == 2     \* |relativePosition| of a nearbyCell predicate
MaxNoteLen == 3     \* tokens in an instructor note given to mergeRuleConfigs
MaxLinks   == 2     \* source links given to the retriever
MaxWrites  == 2     \* the write counters stop counting here
MaxExecutions == 2  \* NotebookActions.executed events
MaxSyncSteps  == 3  \* rounds of the metadata / store echo that are followed
MaxExpandLinks == 3 \* source links given to expandJupyterBookLinks
MaxHrefs == 2       \* anchors of a page given to findJupyterBookLinks
MaxSlashes == 2     \* slashes at the end of a path given to normalizeUrl
MaxStoreCalls == 3  \* calls of the setters of the store

-----------------------------------------------------------------------------
(* Strings.                                                                *)

\* '{{prior_notes}}', one token: the literal does not overlap itself
priorNotesPlaceholder == "{{prior_notes}}"

\* String.prototype.includes for a one-token search string
IncludesToken(s, tok) == \E i \in DOMAIN s : s[i] = tok

\* String.prototype.indexOf for a one-token search string (0 when absent,
\* positions counted from 1)
IndexOfToken(s, tok) ==
    IF IncludesToken(s, tok)
    THEN CHOOSE i \in DOMAIN s : s[i] = tok /\ \A j \in 1..(i - 1) : s[j] # tok
    ELSE 0

\* ECMAScript GetSubstitution for a string pattern (no capture groups): in the
\* replacement text $$ is "$", $& the matched text, $` the text before the
\* match, $' the text after it; any other $ stands for itself.
RECURSIVE GetSubstitution(_, _, _, _)
GetSubstitution(template, matched, before, after) ==
    IF template = <<>> THEN <<>>
    ELSE IF Head(template) = "$" /\ Len(template) >= 2
              /\ template[2] \in {"$", "&", "`", "'"}
         THEN LET rest == SubSeq(template, 3, Len(template))
                  out  == CASE template[2] = "$" -> <<"$">>
                            [] template[2] = "&" -> matched
                            [] template[2] = "`" -> before
                            [] template[2] = "'" -> after
              IN  out \o GetSubstitution(rest, matched, before, after)
         ELSE <<Head(template)>>
                  \o GetSubstitution(Tail(template), matched, before, after)

\* String.prototype.replace(searchToken, replacement): the first occurrence
\* only, the replacement text read as a replacement pattern
StringReplace(s, tok, replacement) ==
    LET pos == IndexOfToken(s, tok) IN
    IF pos = 0 THEN s
    ELSE LET before == SubSeq(s, 1, pos - 1)
             after  == SubSeq(s, pos + 1, Len(s))
         IN  before \o GetSubstitution(replacement, <<tok>>, before, after)
                    \o after

-----------------------------------------------------------------------------
(* RuleConfigOverrideSchema and mergeRuleConfigs.                          *)

ConfigKeys == {"chatEnabled", "chatProactive", "instructorNote", "quickResponses"}

\* RuleConfigOverrideSchema.parse({}): the schema defaults
baseConfig ==
    [chatEnabled |-> FALSE, chatProactive |-> TRUE,
     instructorNote |-> <<>>, quickResponses |-> <<>>]

\* A JSON value as it sits in metadata: [t |-> its type, v |-> the value].
\* The type each key of RuleConfigOverrideSchema accepts:
SchemaType(key) ==
    CASE key \in {"chatEnabled", "chatProactive"} -> "boolean"
      [] key = "instructorNote" -> "string"
      [] key = "quickResponses" -> "array<string>"

Has(obj, key) == key \in DOMAIN obj

\* RuleConfigOverrideSchema.partial().safeParse(raw).success: every schema key
\* that is present has its type (unknown keys are stripped, not rejected)
PartialParseSucceeds(raw) ==
    \A key \in ConfigKeys \cap DOMAIN raw : raw[key].t = SchemaType(key)

\* the values of a raw object's schema keys
Untag(raw) == [key \in ConfigKeys \cap DOMAIN raw |-> raw[key].v]

\* RuleConfigOverrideSchema.partial().parse(raw).  partial() wraps every field
\* z.X().default(d) in an optional; the optional hands an absent key to the
\* default, so the parsed object holds the schema default of every key that raw
\* leaves out ("Zod defaults for unset fields", config-rules.ts:72-73).
PartialParse(config) ==
    [key \in ConfigKeys |->
        IF Has(config, key) THEN config[key] ELSE baseConfig[key]]

\* mergeRuleConfigs(current, update); update's keys are those it defines
mergeRuleConfigs(current, update) ==
    LET instructorNote ==
            IF Has(update, "instructorNote")
            THEN IF IncludesToken(update.instructorNote, priorNotesPlaceholder)
                 THEN StringReplace(update.instructorNote,
                                    priorNotesPlaceholder,
                                    current.instructorNote)
                 ELSE update.instructorNote
            ELSE current.instructorNote
    IN  [key \in ConfigKeys |->
            IF key = "instructorNote" THEN instructorNote
            ELSE IF Has(update, key) THEN update[key]
            ELSE current[key]]

-----------------------------------------------------------------------------
(* Cells and buildCellContext.                                             *)
(* A cell is [type, source, editable, tags, outputs, jupytutor]:           *)
(*   type      cell.type                                                   *)
(*   source    cell.sharedModel.getSource(), a string                      *)
(*   editable  the 'editable' metadata: "unset", "true" or "false"         *)
(*   tags      the 'tags' metadata: a sequence of JSON values              *)
(*   outputs   a sequence of [output_type, text]: text is what             *)
(*             extractOutputText draws from the output                     *)
(*   jupytutor the 'jupytutor' metadata: [shape |-> "undefined" | "null" | *)
(*             "string" | "array"] or [shape |-> "object", raw |-> ...]    *)

\* Array.prototype.join('\n') of strings
RECURSIVE JoinLines(_)
JoinLines(texts) ==
    IF texts = <<>> THEN <<>>
    ELSE IF Len(texts) = 1 THEN texts[1]
    ELSE texts[1] \o <<"\n">> \o JoinLines(Tail(texts))

extractOutputsAsText(cell) ==
    LET NonEmpty(text) == text # <<>>
    IN  JoinLines(SelectSeq([i \in DOMAIN cell.outputs |-> cell.outputs[i].text],
                            NonEmpty))

detectOutputError(cell) ==
    \E i \in DOMAIN cell.outputs : cell.outputs[i].output_type = "error"

buildCellContext(cell) ==
    LET type == IF cell.type = "code" THEN "code"
                ELSE IF cell.type = "markdown" THEN "markdown" ELSE "unknown"
        IsStringTag(tag) == tag.t = "string"
        stringTags == SelectSeq(cell.tags, IsStringTag)
    IN  [type       |-> type,
         text       |-> cell.source,
         editable   |-> cell.editable # "false",
         tags       |-> [i \in DOMAIN stringTags |-> stringTags[i].v],
         outputText |-> IF type = "code" THEN extractOutputsAsText(cell) ELSE <<>>,
         hasError   |-> IF type = "code" THEN detectOutputError(cell) ELSE FALSE]

\* getCellContext: the context of the cell at a 0-based index, Null outside
\* the notebook
getCellContext(nb, index) ==
    IF index < 0 \/ index >= Len(nb) THEN Null
    ELSE buildCellContext(nb[index + 1])

-----------------------------------------------------------------------------
(* evaluatePredicate.                                                      *)
(* A predicate node is a record whose field kind is the one key it holds:  *)
(*   [kind |-> "AND", list], [kind |-> "OR", list], [kind |-> "NOT", inner]*)
(*   [kind |-> "nearbyCell", relativePosition, matches]                    *)
(*   [kind |-> "cellType" | "output" | "content", m]  (m a string matcher) *)
(*   [kind |-> "hasError" | "isEditable", v]                               *)
(*   [kind |-> "tags", quant |-> "any" | "all", m]                         *)
(*   [kind |-> "empty"]   an object with none of the keys                  *)
(* A string matcher is [m |-> "literal", s], [m |-> "is", s] or            *)
(* [m |-> "matchesRegex", pattern, flags].                                 *)

\* new RegExp(pattern, flags) throws for an unbalanced bracket or an unknown
\* flag
RegExpCompiles(pattern, flags) == pattern # "[" /\ flags \in {"", "i"}

\* RegExp.prototype.test for the patterns the model draws from
RegExpTest(pattern, flags, value) ==
    CASE pattern = ".*"    -> TRUE
      [] pattern = "^$"    -> value = <<>>
      [] pattern = "Error" ->
            \/ IncludesToken(value, "Error")
            \/ flags = "i" /\ IncludesToken(value, "error")
      [] OTHER -> FALSE

evaluateStringPredicate(value, sp) ==
    CASE sp.m = "literal" -> value = sp.s
      [] sp.m = "is" -> value = sp.s
      [] sp.m = "matchesRegex" ->
            IF RegExpCompiles(sp.pattern, sp.flags)
            THEN RegExpTest(sp.pattern, sp.flags, value)
            ELSE FALSE
      [] OTHER -> FALSE

\* an array predicate that asks the first value only
evaluateArrayPredicateOfFirst(values, quant, sp) ==
    /\ quant \in {"any", "all"}
    /\ values # <<>>
    /\ evaluateStringPredicate(values[1], sp)

evaluateArrayPredicate(values, quant, sp) ==
    CASE quant = "any" ->
            \E i \in DOMAIN values : evaluateStringPredicate(values[i], sp)
      [] quant = "all" ->
            \A i \in DOMAIN values : evaluateStringPredicate(values[i], sp)
      [] OTHER -> FALSE

\* an output predicate that hands an empty outputText to the matcher
OutputMatchesVacuously(outputText, sp) ==
    evaluateStringPredicate(outputText, sp)

\* lines 240-246: the output predicate; !context.outputText is true of ''
OutputMatches(outputText, sp) ==
    IF outputText = <<>> THEN FALSE
    ELSE evaluateStringPredicate(outputText, sp)

\* lines 228-264: a predicate that is none of AND, OR, NOT, nearbyCell
evaluateLeaf(p, nb, index) ==
    LET context == getCellContext(nb, index) IN
    IF context = Null THEN FALSE
    ELSE CASE p.kind = "cellType" ->
                /\ p.m.m \in {"literal", "is"}
                /\ p.m.s = <<context.type>>
           [] p.kind = "output" -> OutputMatches(context.outputText, p.m)
           [] p.kind = "hasError" -> p.v = context.hasError
           [] p.kind = "content" ->
                evaluateStringPredicate(context.text, p.m)
           [] p.kind = "isEditable" -> p.v = context.editable
           [] p.kind = "tags" ->
                evaluateArrayPredicate(context.tags, p.quant, p.m)
           [] OTHER -> FALSE

\* an evaluator whose AND is true when some child is
RECURSIVE evaluatePredicateSomeForEvery(_, _, _)
evaluatePredicateSomeForEvery(p, nb, index) ==
    CASE p.kind = "AND" ->
            \E i \in DOMAIN p.list :
                evaluatePredicateSomeForEvery(p.list[i], nb, index)
      [] p.kind = "OR" ->
            \E i \in DOMAIN p.list :
                evaluatePredicateSomeForEvery(p.list[i], nb, index)
      [] p.kind = "NOT" -> ~evaluatePredicateSomeForEvery(p.inner, nb, index)
      [] p.kind = "nearbyCell" ->
            evaluatePredicateSomeForEvery(p.matches, nb,
                                          index + p.relativePosition)
      [] OTHER -> evaluateLeaf(p, nb, index)

\* the value evaluatePredicate returns when it returns
RECURSIVE evaluatePredicate(_, _, _)
evaluatePredicate(p, nb, index) ==
    CASE p.kind = "AND" ->
            \A i \in DOMAIN p.list : evaluatePredicate(p.list[i], nb, index)
      [] p.kind = "OR" ->
            \E i \in DOMAIN p.list : evaluatePredicate(p.list[i], nb, index)
      [] p.kind = "NOT" -> ~evaluatePredicate(p.inner, nb, index)
      [] p.kind = "nearbyCell" ->
            evaluatePredicate(p.matches, nb, index + p.relativePosition)
      [] OTHER -> evaluateLeaf(p, nb, index)

\* "'is' in predicate" raises a TypeError when the matcher is null or is a
\* number or a boolean
StringPredicateThrows(sp) == sp.m \in {"null", "number"}

\* "'any' in predicate" raises when the value of tags is null; some / every
\* call evaluateStringPredicate when there is a tag
ArrayPredicateThrows(values, quant, sp) ==
    \/ quant = "null"
    \/ quant \in {"any", "all"} /\ values # <<>> /\ StringPredicateThrows(sp)

\* lines 228-264 raise: expected.is with expected null, or a matcher raises
LeafThrows(p, nb, index) ==
    LET context == getCellContext(nb, index) IN
    IF context = Null THEN FALSE
    ELSE CASE p.kind = "cellType" -> p.m.m = "null"
           [] p.kind = "output" ->
                context.outputText # <<>> /\ StringPredicateThrows(p.m)
           [] p.kind = "content" -> StringPredicateThrows(p.m)
           [] p.kind = "tags" ->
                ArrayPredicateThrows(context.tags, p.quant, p.m)
           [] OTHER -> FALSE

\* evaluatePredicate raises: every and some stop at the first child that
\* decides, so a child raises only when the children before it did not
RECURSIVE evaluatePredicateThrows(_, _, _)
evaluatePredicateThrows(p, nb, index) ==
    CASE p.kind = "AND" ->
            \E i \in DOMAIN p.list :
                /\ evaluatePredicateThrows(p.list[i], nb, index)
                /\ \A j \in 1..(i - 1) :
                        /\ ~evaluatePredicateThrows(p.list[j], nb, index)
                        /\ evaluatePredicate(p.list[j], nb, index)
      [] p.kind = "OR" ->
            \E i \in DOMAIN p.list :
                /\ evaluatePredicateThrows(p.list[i], nb, index)
                /\ \A j \in 1..(i - 1) :
                        /\ ~evaluatePredicateThrows(p.list[j], nb, index)
                        /\ ~evaluatePredicate(p.list[j], nb, index)
      [] p.kind = "NOT" -> evaluatePredicateThrows(p.inner, nb, index)
      [] p.kind = "nearbyCell" ->
            evaluatePredicateThrows(p.matches, nb, index + p.relativePosition)
      [] OTHER -> LeafThrows(p, nb, index)

-----------------------------------------------------------------------------
(* applyConfigRules.                                                       *)
(* A rule is [config |-> partial config] or [when |-> predicate, config].  *)

\* line 54: the rule has no predicate, or its predicate holds for the cell
RuleApplies(rule, nb, index) ==
    \/ ~Has(rule, "when")
    \/ evaluatePredicate(rule.when, nb, index)

\* lines 46-57: the loop over the rules, from the accumulator merged
RECURSIVE RuleLoop(_, _, _, _)
RuleLoop(rules, nb, index, merged) ==
    IF rules = <<>> THEN merged
    ELSE LET rule == Head(rules)
             parsedRuleConfig == PartialParse(rule.config)
         IN  RuleLoop(Tail(rules), nb, index,
                      IF RuleApplies(rule, nb, index)
                      THEN mergeRuleConfigs(merged, parsedRuleConfig)
                      ELSE merged)

\* lines 63-67: a non-null object that is no array
IsPlainObject(meta) == meta.shape = "object"

\* a resolver that merges the whole parsed object, defaults of the unset
\* keys included
ExplicitOverrideWithDefaults(raw) == PartialParse(Untag(raw))

\* lines 74-79: the keys of the raw metadata that the schema knows, with
\* their parsed values
ExplicitOverride(raw) == Untag(raw)

\* a resolver that applies the well-typed keys of an object that fails
\* validation
CellOverrideOfValidKeys(nb, index, merged) ==
    IF index < 0 \/ index >= Len(nb) THEN merged
    ELSE LET cellMetadataOverride == nb[index + 1].jupytutor IN
         IF IsPlainObject(cellMetadataOverride)
         THEN LET raw  == cellMetadataOverride.raw
                  good == {key \in ConfigKeys \cap DOMAIN raw :
                                raw[key].t = SchemaType(key)}
              IN  mergeRuleConfigs(merged, [key \in good |-> raw[key].v])
         ELSE merged

\* lines 59-83: the cell's own metadata, merged last
CellOverride(nb, index, merged) ==
    IF index < 0 \/ index >= Len(nb) THEN merged
    ELSE LET cellMetadataOverride == nb[index + 1].jupytutor IN
         IF /\ IsPlainObject(cellMetadataOverride)
            /\ PartialParseSucceeds(cellMetadataOverride.raw)
         THEN mergeRuleConfigs(merged, ExplicitOverride(cellMetadataOverride.raw))
         ELSE merged

applyConfigRules(nb, index, rules) ==
    CellOverride(nb, index, RuleLoop(rules, nb, index, baseConfig))

-----------------------------------------------------------------------------
(* URLs of the context retriever (GlobalNotebookContextRetrieval).         *)
(* A URL is a string whose tokens are the scheme, the host, then "/" and   *)
(* path segments, then "?" and a query, then "#" and a fragment:           *)
(*   <<"https://", "book.org", "/", "chapters", "/", "3", "/", "1">>       *)

\* String.prototype.includes
Includes(s, t) ==
    \E i \in 0..(Len(s) - Len(t)) : SubSeq(s, i + 1, i + Len(t)) = t

\* array.some(entry => url.includes(entry))
SomeIncluded(url, entries) ==
    \E k \in DOMAIN entries : Includes(url, entries[k])

Min(a, b) == IF a <= b THEN a ELSE b

\* the first position of s holding one of toks, Len(s) + 1 when there is none
FirstOf(s, toks) ==
    IF \E i \in DOMAIN s : s[i] \in toks
    THEN CHOOSE i \in DOMAIN s :
            s[i] \in toks /\ \A j \in 1..(i - 1) : s[j] \notin toks
    ELSE Len(s) + 1

\* new URL(url) does not throw
CanParseUrl(url) == Len(url) >= 2 /\ url[1] \in {"https://", "http://"}

\* new URL(url).pathname: "/" when the URL has no path
Pathname(url) ==
    LET path == SubSeq(url, 3, FirstOf(url, {"?", "#"}) - 1)
    IN  IF path = <<>> THEN <<"/">> ELSE path

\* new URL(url).search
Search(url) == SubSeq(url, FirstOf(url, {"?"}), FirstOf(url, {"#"}) - 1)

\* a normalization that returns the URL as it is written
UrlAsWritten(url) == url

\* new URL(url).host: the URL parser lowercases the letters of a domain
HostOf(url) == IF url[2] = "Site.com" THEN "site.com" ELSE url[2]

\* urlObj.href after hash and pathname were set: scheme, host as the parser
\* keeps it, the pathname less one trailing slash, the query
normalizeUrl(url) ==
    IF ~CanParseUrl(url) THEN url
    ELSE LET path == Pathname(url)
             stripped == IF Len(path) > 1 /\ path[Len(path)] = "/"
                         THEN SubSeq(path, 1, Len(path) - 1)
                         ELSE path
         IN  <<url[1], HostOf(url)>> \o stripped \o Search(url)

\* the tokens \d+ matches
Digits == {"0", "1", "2", "3", "4", "5", "6", "7", "8", "9", "10"}

\* a parseInt that reads the first digit only
ParseIntOfFirstDigit(tok) ==
    CASE tok = "0" -> 0 [] tok = "1" -> 1 [] tok = "2" -> 2 [] tok = "3" -> 3
      [] tok = "4" -> 4 [] tok = "5" -> 5 [] tok = "6" -> 6 [] tok = "7" -> 7
      [] tok = "8" -> 8 [] tok = "9" -> 9 [] tok = "10" -> 1

\* parseInt of a token of Digits
ParseInt(tok) ==
    CASE tok = "0" -> 0 [] tok = "1" -> 1 [] tok = "2" -> 2 [] tok = "3" -> 3
      [] tok = "4" -> 4 [] tok = "5" -> 5 [] tok = "6" -> 6 [] tok = "7" -> 7
      [] tok = "8" -> 8 [] tok = "9" -> 9 [] tok = "10" -> 10

\* where /\/chapters\/(\d+)/ matches in path: 0 when it does not
ChapterMatchAt(path) ==
    LET hits == {i \in 1..(Len(path) - 3) :
                    /\ path[i] = "/" /\ path[i + 1] = "chapters"
                    /\ path[i + 2] = "/" /\ path[i + 3] \in Digits}
    IN  IF hits = {} THEN 0 ELSE CHOOSE i \in hits : \A j \in hits : i <= j

\* path.match(/\/chapters\/(\d+)(?:\/(\d+))?/): the two groups, "" for a
\* group that did not take part, Null when there is no match
ChapterMatch(path) ==
    LET i == ChapterMatchAt(path)
    IN  IF i = 0 THEN Null
        ELSE [chapter |-> path[i + 3],
              subsection |->
                IF i + 5 <= Len(path) /\ path[i + 4] = "/"
                        /\ path[i + 5] \in Digits
                THEN path[i + 5] ELSE ""]

\* the order String.prototype.localeCompare gives the tokens of the model
TokenOrder ==
    <<"/", "0", "1", "10", "2", "3", "4", "5", "6", "7", "8", "9",
      "chapters", "ref">>

TokenRank(tok) ==
    IF \E i \in DOMAIN TokenOrder : TokenOrder[i] = tok
    THEN CHOOSE i \in DOMAIN TokenOrder : TokenOrder[i] = tok
    ELSE Len(TokenOrder) + 1

RECURSIVE localeCompare(_, _)
localeCompare(a, b) ==
    IF a = <<>> /\ b = <<>> THEN 0
    ELSE IF a = <<>> THEN 0 - 1
    ELSE IF b = <<>> THEN 1
    ELSE IF TokenRank(Head(a)) # TokenRank(Head(b))
         THEN TokenRank(Head(a)) - TokenRank(Head(b))
    ELSE localeCompare(Tail(a), Tail(b))

\* the comparator of uniqueExpandedLinks.sort
CompareExpanded(a, b) ==
    LET aMatch == ChapterMatch(Pathname(a))
        bMatch == ChapterMatch(Pathname(b))
        Sub(m) == IF m.subsection = "" THEN 0 ELSE ParseInt(m.subsection)
    IN  IF aMatch # Null /\ bMatch # Null
        THEN IF ParseInt(aMatch.chapter) # ParseInt(bMatch.chapter)
             THEN ParseInt(aMatch.chapter) - ParseInt(bMatch.chapter)
             ELSE Sub(aMatch) - Sub(bMatch)
        ELSE localeCompare(Pathname(a), Pathname(b))

\* Array.prototype.sort is stable: x goes behind the elements it does not
\* precede
RECURSIVE InsertExpanded(_, _)
InsertExpanded(x, sorted) ==
    IF sorted = <<>> THEN <<x>>
    ELSE IF CompareExpanded(x, Head(sorted)) < 0 THEN <<x>> \o sorted
    ELSE <<Head(sorted)>> \o InsertExpanded(x, Tail(sorted))

RECURSIVE SortExpanded(_)
SortExpanded(links) ==
    IF links = <<>> THEN <<>>
    ELSE InsertExpanded(links[Len(links)],
                        SortExpanded(SubSeq(links, 1, Len(links) - 1)))

\* the loop pushing uniqueExpandedLinks: [result, seenUrls]
RECURSIVE PushUnseen(_, _)
PushUnseen(links, acc) ==
    IF links = <<>> THEN acc
    ELSE PushUnseen(Tail(links),
            IF normalizeUrl(Head(links)) \in acc.seenUrls THEN acc
            ELSE [acc EXCEPT !.result = Append(@, Head(links)),
                             !.seenUrls = @ \cup {normalizeUrl(Head(links))}])

\* allLinks[jupyterBookIndex] || []
ExpandedLinksForThisUrl(allLinks, jupyterBookIndex) ==
    IF jupyterBookIndex + 1 \in DOMAIN allLinks
    THEN allLinks[jupyterBookIndex + 1] ELSE <<>>

\* the loop of expandJupyterBookLinks over sourceLinks[i..]; allLinks holds
\* what findJupyterBookLinks gave for the book links, in their order
RECURSIVE ExpandLoop(_, _, _, _, _)
ExpandLoop(links, jupyterbookURLs, allLinks, jupyterBookIndex, acc) ==
    IF links = <<>> THEN acc.result
    ELSE LET originalLink == Head(links)
             normalizedOriginalLink == normalizeUrl(originalLink)
             pushed ==
                IF normalizedOriginalLink \in acc.seenUrls THEN acc
                ELSE [acc EXCEPT !.result = Append(@, originalLink),
                                 !.seenUrls = @ \cup {normalizedOriginalLink}]
         IN  IF SomeIncluded(originalLink, jupyterbookURLs)
             THEN LET expandedLinksForThisUrl ==
                        ExpandedLinksForThisUrl(allLinks, jupyterBookIndex)
                      Unique(link) ==
                        /\ normalizeUrl(link) # normalizedOriginalLink
                        /\ normalizeUrl(link) \notin pushed.seenUrls
                      uniqueExpandedLinks ==
                        SortExpanded(SelectSeq(expandedLinksForThisUrl, Unique))
                  IN  ExpandLoop(Tail(links), jupyterbookURLs, allLinks,
                                 jupyterBookIndex + 1,
                                 PushUnseen(uniqueExpandedLinks, pushed))
             ELSE ExpandLoop(Tail(links), jupyterbookURLs, allLinks,
                             jupyterBookIndex, pushed)

\* the source links findJupyterBookLinks is called for, in order
JupyterBookUrls(links, jupyterbookURLs) ==
    LET IsBook(url) == SomeIncluded(url, jupyterbookURLs)
    IN  SelectSeq(links, IsBook)

\* expandJupyterBookLinks once Promise.all has given allLinks
expandJupyterBookLinks(links, jupyterbookURLs, allLinks) ==
    ExpandLoop(links, jupyterbookURLs, allLinks, 0,
               [result |-> <<>>, seenUrls |-> {}])

\* new URL(href, pageUrl).href, and href itself when it starts with http
ResolveHref(href, pageUrl) ==
    LET path == Pathname(pageUrl)
        slashes == {i \in DOMAIN path : path[i] = "/"}
        directory == SubSeq(path, 1, CHOOSE i \in slashes :
                                        \A j \in slashes : j <= i)
    IN  IF href[1] = "/" THEN SubSeq(pageUrl, 1, 2) \o href
        ELSE IF href[1] \in {"https://", "http://"} THEN href
        ELSE SubSeq(pageUrl, 1, 2) \o directory \o href

\* the hrefs findJupyterBookLinks skips, and the paths isChapterSectionLink
\* rejects
UnwantedHrefTokens ==
    {".ipynb", "mybinder", "datahub", "_sources", "_static", "_images"}
ResourceFolders == {"_sources", "_static", "_images"}
ResourceSuffixes == {".ipynb", ".pdf", ".zip", ".tar.gz"}

isChapterSectionLink(pathname, targetChapter, targetSubsection) ==
    LET chapterMatch == ChapterMatch(pathname)
    IN  /\ \A folder \in ResourceFolders :
                ~Includes(pathname, <<"/", folder, "/">>)
        /\ pathname[Len(pathname)] \notin ResourceSuffixes
        /\ Includes(pathname, <<"/", "chapters", "/">>)
        /\ targetSubsection # "" \/ targetChapter # ""
        /\ chapterMatch # Null
        /\ chapterMatch.chapter = targetChapter

\* [...new Set(links)]
RECURSIVE UniqueLinks(_)
UniqueLinks(links) ==
    IF links = <<>> THEN <<>>
    ELSE LET rest == UniqueLinks(SubSeq(links, 1, Len(links) - 1))
             last == links[Len(links)]
         IN  IF \E i \in DOMAIN rest : rest[i] = last THEN rest
             ELSE Append(rest, last)

\* the comparator of sortChapterSectionLinks
CompareChapterSection(a, b) ==
    LET aMatch == ChapterMatch(Pathname(a))
        bMatch == ChapterMatch(Pathname(b))
        Chapter(m) == IF m = Null THEN 0 ELSE ParseInt(m.chapter)
        Subsection(m) == IF m = Null \/ m.subsection = "" THEN 0
                         ELSE ParseInt(m.subsection)
    IN  IF Chapter(aMatch) # Chapter(bMatch)
        THEN Chapter(aMatch) - Chapter(bMatch)
        ELSE IF Subsection(aMatch) # Subsection(bMatch)
        THEN Subsection(aMatch) - Subsection(bMatch)
        ELSE localeCompare(Pathname(a), Pathname(b))

RECURSIVE InsertChapterSection(_, _)
InsertChapterSection(x, sorted) ==
    IF sorted = <<>> THEN <<x>>
    ELSE IF CompareChapterSection(x, Head(sorted)) < 0 THEN <<x>> \o sorted
    ELSE <<Head(sorted)>> \o InsertChapterSection(x, Tail(sorted))

RECURSIVE sortChapterSectionLinks(_)
sortChapterSectionLinks(links) ==
    IF links = <<>> THEN <<>>
    ELSE InsertChapterSection(links[Len(links)],
            sortChapterSectionLinks(SubSeq(links, 1, Len(links) - 1)))

\* a findJupyterBookLinks whose fetch failed
NoLinksFound(pageUrl, jupyterbookURL, response) == <<>>

\* findJupyterBookLinks(pageUrl, jupyterbookURL) when fetch(pageUrl) gave
\* response: [ok |-> FALSE] for a rejected fetch or a status that is not
\* 2xx, else [ok |-> TRUE, hrefs |-> the href of every anchor of the page]
findJupyterBookLinks(pageUrl, jupyterbookURL, response) ==
    IF ~response.ok \/ ~CanParseUrl(pageUrl) THEN <<>>
    ELSE LET match == ChapterMatch(Pathname(pageUrl))
             targetChapter == IF match = Null THEN "" ELSE match.chapter
             targetSubsection == IF match = Null THEN "" ELSE match.subsection
             Wanted(href) ==
                \A tok \in UnwantedHrefTokens : ~Includes(href, <<tok>>)
             fullUrls ==
                LET hrefs == SelectSeq(response.hrefs, Wanted)
                IN  [i \in DOMAIN hrefs |-> ResolveHref(hrefs[i], pageUrl)]
             Kept(fullUrl) ==
                /\ Includes(fullUrl, jupyterbookURL)
                /\ isChapterSectionLink(Pathname(normalizeUrl(fullUrl)),
                                        targetChapter, targetSubsection)
             kept == SelectSeq(fullUrls, Kept)
             links == [i \in DOMAIN kept |-> normalizeUrl(kept[i])]
         IN  sortChapterSectionLinks(UniqueLinks(links))

\* jupyterbookURLs.find(jupyterbookURL => url.includes(jupyterbookURL))
FindJupyterbookURL(url, jupyterbookURLs) ==
    jupyterbookURLs[CHOOSE k \in DOMAIN jupyterbookURLs :
                        /\ Includes(url, jupyterbookURLs[k])
                        /\ \A j \in 1..(k - 1) :
                                ~Includes(url, jupyterbookURLs[j])]

\* await Promise.all(linkPromises): responses holds, for each book link in
\* order, what the fetch of its page gave
AllLinks(links, jupyterbookURLs, responses) ==
    LET jupyterBookUrls == JupyterBookUrls(links, jupyterbookURLs)
    IN  [k \in DOMAIN jupyterBookUrls |->
            findJupyterBookLinks(jupyterBookUrls[k],
                FindJupyterbookURL(jupyterBookUrls[k], jupyterbookURLs),
                responses[k])]

\* result after the loop of lines 523-593 has gone through source links 1..i
ExpandedUpTo(input, i, allLinks) ==
    expandJupyterBookLinks(SubSeq(input.sourceLinks, 1, i),
                           input.jupyterbookURLs, allLinks)

\* expandJupyterBookLinks(sourceLinks, jupyterbookURLs) when the fetches of
\* the pages gave input.responses: the list returned, what Promise.all
\* gave, and in pushed[i] the length of result after iteration i of the loop
ExpandResult(input) ==
    LET allLinks == AllLinks(input.sourceLinks, input.jupyterbookURLs,
                             input.responses)
    IN  [links |-> ExpandedUpTo(input, Len(input.sourceLinks), allLinks),
         allLinks |-> allLinks,
         pushed |-> [i \in DOMAIN input.sourceLinks |->
                        Len(ExpandedUpTo(input, i, allLinks))]]

\* scrapePageText(pageUrl) when the fetch succeeded: the link between its
\* markers, then the text of the page
ScrapedText(pageUrl) == <<"[LINK] ">> \o pageUrl \o <<" [/LINK]\n", "text">>

\* texts.filter(text => text !== null).join('\n\n')
RECURSIVE JoinTexts(_)
JoinTexts(texts) ==
    IF texts = <<>> THEN <<>>
    ELSE IF Len(texts) = 1 THEN Head(texts)
    ELSE Head(texts) \o <<"\n\n">> \o JoinTexts(Tail(texts))

\* the two filters of scrapeSourceLinks
WhitelistFilter(links, whitelist) ==
    LET isWhitelisted(url) == SomeIncluded(url, whitelist)
    IN  IF Len(whitelist) > 0 THEN SelectSeq(links, isWhitelisted) ELSE links

BlacklistFilter(links, blacklist) ==
    LET notBlacklisted(url) == ~SomeIncluded(url, blacklist)
    IN  IF Len(blacklist) > 0 THEN SelectSeq(links, notBlacklisted) ELSE links

\* a filter sequence in which a non-empty whitelist overrides the blacklist
FilterWhitelistOverriding(links, whitelist, blacklist) ==
    IF Len(whitelist) > 0 THEN WhitelistFilter(links, whitelist)
    ELSE BlacklistFilter(links, blacklist)

\* a pass that fetches every link it is given
FilterNothing(links, whitelist, blacklist) == links

\* what lines 414-427 leave in _sourceLinks
FilterSourceLinks(links, whitelist, blacklist) ==
    BlacklistFilter(WhitelistFilter(links, whitelist), blacklist)

-----------------------------------------------------------------------------
(* The inputs the pure functions are checked on.                           *)

NoMetadata == [shape |-> "undefined"]

Str(tok) == [t |-> "string", v |-> <<tok>>]

\* a code cell whose run raised, a markdown cell, a code cell never run
CodeErrorCell ==
    [type |-> "code", source |-> <<"x">>, editable |-> "unset", tags |-> <<>>,
     outputs |-> <<[output_type |-> "stream", text |-> <<>>],
                   [output_type |-> "error", text |-> <<"Error">>]>>,
     jupytutor |-> NoMetadata]
MarkdownCell ==
    [type |-> "markdown", source |-> <<>>, editable |-> "false",
     tags |-> <<Str("t"), [t |-> "number", v |-> 1]>>,
     outputs |-> <<>>, jupytutor |-> NoMetadata]
CodeIdleCell ==
    [type |-> "code", source |-> <<"x">>, editable |-> "true",
     tags |-> <<Str("t"), Str("u")>>, outputs |-> <<>>,
     jupytutor |-> NoMetadata]

\* a code cell whose only output printed nothing
CodeSilentCell ==
    [type |-> "code", source |-> <<>>, editable |-> "unset",
     tags |-> <<Str("u"), Str("t")>>,
     outputs |-> <<[output_type |-> "stream", text |-> <<>>]>>,
     jupytutor |-> NoMetadata]

CellPool == {CodeErrorCell, MarkdownCell, CodeIdleCell, CodeSilentCell}

Notebooks(cells) == UNION {[1..n -> cells] : n \in 1..MaxCells}

Lit(s) == [m |-> "literal", s |-> s]
Is(s)  == [m |-> "is", s |-> s]
Regex(pattern, flags) == [m |-> "matchesRegex", pattern |-> pattern, flags |-> flags]
\* matchers outside the schema: null, a number, an object with no known key
JsNull      == [m |-> "null"]
JsNumber    == [m |-> "number"]
EmptyObject == [m |-> "object"]

And(list) == [kind |-> "AND", list |-> list]
Or(list)  == [kind |-> "OR", list |-> list]
Not(p)    == [kind |-> "NOT", inner |-> p]
NearbyCell(offset, p) ==
    [kind |-> "nearbyCell", relativePosition |-> offset, matches |-> p]

LeafPredicates ==
    {[kind |-> "cellType", m |-> Lit(<<"code">>)],
     [kind |-> "cellType", m |-> Is(<<"markdown">>)],
     [kind |-> "hasError", v |-> TRUE],
     [kind |-> "isEditable", v |-> FALSE],
     [kind |-> "content", m |-> Lit(<<>>)],
     [kind |-> "output", m |-> Regex(".*", "")],
     [kind |-> "output", m |-> Regex("[", "")],
     [kind |-> "output", m |-> Lit(<<"Error">>)],
     [kind |-> "output", m |-> Lit(<<>>)],
     [kind |-> "output", m |-> Is(<<>>)],
     [kind |-> "output", m |-> Regex("^$", "")],
     [kind |-> "tags", quant |-> "any", m |-> Lit(<<"t">>)],
     [kind |-> "tags", quant |-> "all", m |-> Is(<<"t">>)],
     [kind |-> "empty"]}

\* leaves whose value is not what the Predicate type allows
MalformedLeaves ==
    {[kind |-> "cellType", m |-> JsNull],
     [kind |-> "cellType", m |-> EmptyObject],
     [kind |-> "output", m |-> JsNumber],
     [kind |-> "content", m |-> EmptyObject],
     [kind |-> "tags", quant |-> "any", m |-> JsNull],
     [kind |-> "tags", quant |-> "object", m |-> EmptyObject],
     [kind |-> "tags", quant |-> "null", m |-> JsNull]}

CombinedPredicates ==
    {Not(p) : p \in LeafPredicates}
        \cup {And(<<>>), Or(<<>>)}
        \cup {And(<<[kind |-> "hasError", v |-> TRUE],
                    [kind |-> "cellType", m |-> JsNull]>>)}
        \cup {And(<<p, [kind |-> "hasError", v |-> TRUE]>>) :
                p \in {[kind |-> "cellType", m |-> Lit(<<"code">>)],
                       [kind |-> "cellType", m |-> Is(<<"markdown">>)]}}
        \cup {Or(<<p, [kind |-> "tags", quant |-> "any", m |-> Lit(<<"t">>)]>>) :
                p \in {[kind |-> "hasError", v |-> TRUE], Or(<<>>)}}

Offsets == (0 - MaxOffset)..MaxOffset

NestedNearby ==
    {NearbyCell(o, p) : o \in Offsets,
                        p \in {[kind |-> "cellType", m |-> Lit(<<"code">>)],
                               Not([kind |-> "hasError", v |-> TRUE])}}

PredicatePool ==
    LeafPredicates \cup MalformedLeaves \cup CombinedPredicates
        \cup {NearbyCell(o, p) :
                o \in Offsets,
                p \in LeafPredicates \cup MalformedLeaves
                        \cup CombinedPredicates \cup NestedNearby}

\* instructor notes given to mergeRuleConfigs: the prior note may hold the
\* characters a replacement pattern gives a meaning to
PriorNotes  == SeqsUpTo({"a", "$", "&", "'"}, MaxNoteLen)
UpdateNotes == SeqsUpTo({"b", priorNotesPlaceholder}, MaxNoteLen)

MergeUpdates ==
    {<<>>, [chatEnabled |-> TRUE]}
        \cup {[instructorNote |-> n] : n \in UpdateNotes}
        \cup {[instructorNote |-> n, quickResponses |-> <<<<"q1">>>>] :
                n \in UpdateNotes}

\* the 'jupytutor' metadata a cell may carry
ValidCellMetadata ==
    {[shape |-> "object", raw |-> raw] :
        raw \in {<<>>,
                 [instructorNote |-> Str("b")],
                 [instructorNote |-> [t |-> "string",
                                      v |-> <<priorNotesPlaceholder, "b">>]],
                 [chatEnabled |-> [t |-> "boolean", v |-> FALSE]],
                 [chatProactive |-> [t |-> "boolean", v |-> FALSE],
                  quickResponses |-> [t |-> "array<string>", v |-> <<<<"q2">>>>]],
                 [color |-> Str("red")]}}

InvalidObjectMetadata ==
    {[shape |-> "object", raw |-> raw] :
        raw \in {[chatEnabled |-> Str("yes")],
                 [chatEnabled |-> [t |-> "boolean", v |-> TRUE],
                  instructorNote |-> [t |-> "number", v |-> 1]],
                 [quickResponses |-> Str("q2"),
                  chatProactive |-> [t |-> "boolean", v |-> FALSE]]}}

InvalidCellMetadata ==
    {[shape |-> "null"], [shape |-> "string"], [shape |-> "array"]}
        \cup InvalidObjectMetadata

CellMetadataPool == {NoMetadata} \cup ValidCellMetadata \cup InvalidCellMetadata

RulePool ==
    {[config |-> [chatEnabled |-> TRUE, instructorNote |-> <<"a">>]],
     [config |-> <<>>],
     [when |-> And(<<[kind |-> "cellType", m |-> Lit(<<"code">>)],
                     [kind |-> "hasError", v |-> TRUE]>>),
      config |-> [chatProactive |-> FALSE, quickResponses |-> <<<<"q1">>>>]],
     [when |-> NearbyCell(-1, [kind |-> "cellType", m |-> Is(<<"markdown">>)]),
      config |-> [instructorNote |-> <<priorNotesPlaceholder, "b">>]],
     [when |-> Not([kind |-> "cellType", m |-> Lit(<<"code">>)]),
      config |-> [chatEnabled |-> FALSE]],
     [when |-> [kind |-> "tags", quant |-> "any", m |-> Lit(<<"t">>)],
      config |-> [instructorNote |-> <<"b">>, chatProactive |-> TRUE]]}

RuleLists == SeqsUpTo(RulePool, MaxRules)

\* pages of a Jupyter Book and a page of the course site
BookCh3   == <<"https://", "book.org", "/", "chapters", "/", "3">>
BookCh3s1 == <<"https://", "book.org", "/", "chapters", "/", "3", "/", "1">>
BookCh3s2 == <<"https://", "book.org", "/", "chapters", "/", "3", "/", "2">>
Data8Ref  == <<"https://", "data8.org", "/", "ref">>

SourceLinkPool == {BookCh3s1, Data8Ref}


\* more pages of the book, and the spellings of a page that differ in the
\* fragment or in the trailing slash
BookCh3s10    == <<"https://", "book.org", "/", "chapters", "/", "3", "/", "10">>
BookCh4       == <<"https://", "book.org", "/", "chapters", "/", "4">>
BookCh4s1     == <<"https://", "book.org", "/", "chapters", "/", "4", "/", "1">>
BookCh3s2Frag == BookCh3s2 \o <<"#", "frag">>
BookCh3Slash  == BookCh3 \o <<"/">>

ExpandLinkPool == {BookCh3s2, BookCh3s2Frag, BookCh3Slash, Data8Ref}

\* the hrefs of the anchors of a page of the book, in document order: the
\* table of contents (root-relative, absolute and relative hrefs, a page
\* linked twice, a link out of the book, a stylesheet and a notebook), and
\* a page that links to its chapter only
TocHrefs ==
    <<<<"/", "chapters", "/", "3", "/", "10">>, BookCh3s2Frag, BookCh4s1,
      <<"1">>, BookCh3, BookCh4, BookCh3s2, Data8Ref,
      <<"/", "_static", "/", "chapters", "/", "3">>,
      <<"/", "chapters", "/", "3", "/", ".ipynb">>>>
ChapterHrefs == <<BookCh3Slash, BookCh4>>

\* what fetch(pageUrl) may give
FetchFailed == [ok |-> FALSE, hrefs |-> <<>>]

\* what the fetch of a book page may give the retriever: a failure, or a
\* page that links to the pages of chapter 3
BookPageResponses ==
    {FetchFailed, [ok |-> TRUE, hrefs |-> <<BookCh3s2, BookCh3, BookCh3s1>>]}
ResponsePool ==
    {FetchFailed, [ok |-> TRUE, hrefs |-> TocHrefs],
     [ok |-> TRUE, hrefs |-> ChapterHrefs]}

\* pages findJupyterBookLinks is called for: a subsection, a chapter page
\* written with its trailing slash, and a page outside the chapters
BookIntro == <<"https://", "book.org", "/", "intro">>
FindPagePool == {BookCh3s2, BookCh3Slash, BookIntro}

\* the hrefs a page may hold, next to those of the table of contents: a
\* download and a figure below the chapter, and a page of another site that
\* keeps a copy of the book below a folder named after it
MirrorCh3s1 ==
    <<"https://", "mirror.net", "/", "book.org", "/", "chapters", "/", "3",
      "/", "1">>
HrefPool ==
    Range(TocHrefs)
        \cup {<<"/", "chapters", "/", "3", "/", "notes", ".pdf">>,
              <<"/", "chapters", "/", "3", "/", "_images", "/", "fig">>,
              MirrorCh3s1}

\* URLs given to normalizeUrl: a host written in either case, no path, the
\* root, a path in either case with up to MaxSlashes slashes at its end,
\* with and without a query and a fragment; and a string that is no URL
RECURSIVE Slashes(_)
Slashes(n) == IF n = 0 THEN <<>> ELSE <<"/">> \o Slashes(n - 1)

NotAUrl == <<"site.com", "/", "a", "/">>

NormalizeUrlPool ==
    {<<"https://", host>> \o path \o query \o fragment :
        host \in {"site.com", "Site.com"},
        path \in {<<>>, <<"/">>, <<"/", "A">>}
                    \cup {<<"/", "a">> \o Slashes(n) : n \in 0..MaxSlashes},
        query \in {<<>>, <<"?", "q">>},
        fragment \in {<<>>, <<"#", "frag">>}}
        \cup {NotAUrl}

FindInputs ==
    [pageUrl : FindPagePool,
     jupyterbookURL : {<<"book.org">>},
     response : {FetchFailed}
                    \cup {[ok |-> TRUE, hrefs |-> hrefs] :
                            hrefs \in SeqsUpTo(HrefPool, MaxHrefs)}]

ExpandInputs ==
    LET books == << <<"book.org">> >>
    IN  UNION {{[sourceLinks |-> links, jupyterbookURLs |-> books,
                 responses |-> responses] :
                    responses \in [DOMAIN JupyterBookUrls(links, books)
                                        -> ResponsePool]} :
               links \in SeqsUpTo(ExpandLinkPool, MaxExpandLinks)}

\* whitelistedURLs: null or a list
ListOf(entries) == [list |-> entries]

RetrieverConfigs ==
    [sourceLinks : SeqsUpTo(SourceLinkPool, MaxLinks),
     whitelistedURLs : {Null, ListOf(<< <<"book.org">> >>)},
     blacklistedURLs : {<<>>, << <<"3", "/", "1">> >>},
     jupyterbookURLs : {<< <<"book.org">> >>},
     attemptJupyterbookLinkExpansion : BOOLEAN,
     debug : BOOLEAN]
        \cup \* a blacklist that names a page the expansion adds
        {[sourceLinks |-> <<BookCh3s1, Data8Ref>>,
          whitelistedURLs |-> Null,
          blacklistedURLs |-> << <<"3", "/", "2">> >>,
          jupyterbookURLs |-> << <<"book.org">> >>,
          attemptJupyterbookLinkExpansion |-> TRUE,
          debug |-> FALSE]}

-----------------------------------------------------------------------------
(* ConfigSchema and the notebook's 'jupytutor' metadata.                   *)
(* The metadata is [shape |-> "undefined"], [shape |-> "string"] or        *)
(* [shape |-> "object", raw |-> fields], every field [t |-> type, v |->    *)
(* value]. Of a parsed configuration the model keeps what index.ts reads:  *)
(* pluginEnabled, rules and preferences.                                   *)

ConfigSchemaKeys == {"pluginEnabled", "rules", "preferences"}

ConfigSchemaType(key) ==
    CASE key = "pluginEnabled" -> "boolean"
      [] key = "rules" -> "rules"
      [] key = "preferences" -> "preferences"

\* the .default([...]) of rules
defaultRules ==
    <<[config |-> [chatEnabled |-> TRUE, chatProactive |-> FALSE]],
      [when |-> And(<<[kind |-> "cellType", m |-> Lit(<<"code">>)],
                      [kind |-> "hasError", v |-> TRUE]>>),
       config |-> [chatEnabled |-> TRUE, chatProactive |-> TRUE,
                   quickResponses |-> << <<"Explain this error.">> >>]],
      [when |-> [kind |-> "tags", quant |-> "any",
                 m |-> Lit(<<"jupytutor:disable_proactive">>)],
       config |-> [chatEnabled |-> FALSE]],
      [when |-> [kind |-> "tags", quant |-> "any",
                 m |-> Lit(<<"jupytutor:disable">>)],
       config |-> [chatEnabled |-> FALSE]]>>

\* ConfigSchema.parse(config) does not throw
ConfigParseSucceeds(meta) ==
    /\ meta.shape = "object"
    /\ \A key \in ConfigSchemaKeys \cap DOMAIN meta.raw :
            meta.raw[key].t = ConfigSchemaType(key)

\* parseConfiguration(config) when it does not throw: given rules have
\* their config parsed by RuleConfigOverrideSchema.partial()
parseConfiguration(meta) ==
    [pluginEnabled |->
        IF Has(meta.raw, "pluginEnabled") THEN meta.raw.pluginEnabled.v
        ELSE FALSE,
     rules |->
        IF Has(meta.raw, "rules")
        THEN [i \in DOMAIN meta.raw.rules.v |->
                [meta.raw.rules.v[i] EXCEPT !.config = PartialParse(@)]]
        ELSE defaultRules,
     preferences |->
        IF Has(meta.raw, "preferences") THEN meta.raw.preferences.v
        ELSE [proactiveEnabled |-> TRUE]]

\* notebookModel.getMetadata('jupytutor') ?? {}
RawConfig(meta) ==
    IF meta.shape = "undefined" THEN [shape |-> "object", raw |-> <<>>]
    ELSE meta

LoadSucceeds(meta) == ConfigParseSucceeds(RawConfig(meta))

loadConfigurationFromNotebookModel(meta) == parseConfiguration(RawConfig(meta))

\* the value notebookModel.setMetadata('jupytutor', notebookConfig) stores
ToMetadata(config) ==
    [shape |-> "object",
     raw |-> [pluginEnabled |-> [t |-> "boolean", v |-> config.pluginEnabled],
              rules |-> [t |-> "rules", v |-> config.rules],
              preferences |-> [t |-> "preferences",
                               v |-> config.preferences]]]

\* a notebook said to hold metadata whatever getMetadata returns
HoldsAnything(meta) == TRUE

\* lines 90-94: notebookModel.getMetadata('jupytutor') is not falsy
HoldsMetadata(meta) == meta.shape # "undefined"

\* an equalityFn that compares references: the configuration the slot has
\* parsed is a new object every time
ObjectIs(a, b) == FALSE

\* equalityFn: isEqual, the deep comparison of the two slices
isEqual(a, b) == a = b

\* the store has set notebookConfig to new where old was, with the listeners
\* of attachNotebookMetadata connected: the subscription writes new to the
\* notebook when it differs from old and the notebook holds metadata, the
\* write raises metadataChanged, and the slot stores the parse of what was
\* written. The result tells how many times setMetadata was called and
\* whether the chain stopped of itself within the rounds that are followed.
RECURSIVE StoreConfigChanged(_, _, _, _)
StoreConfigChanged(meta, old, new, steps) ==
    IF isEqual(old, new) \/ ~HoldsMetadata(meta) \/ steps = 0
    THEN [metadata |-> meta, notebookConfig |-> new,
          writes |-> MaxSyncSteps - steps,
          quiesced |-> isEqual(old, new) \/ ~HoldsMetadata(meta)]
    ELSE LET written == ToMetadata(new)
         IN  StoreConfigChanged(written, new,
                IF ConfigParseSucceeds(written)
                THEN parseConfiguration(written) ELSE new,
                steps - 1)

\* the metadata a notebook may carry
ValidMetadata ==
    {[shape |-> "object", raw |-> raw] :
        raw \in {<<>>,
                 [pluginEnabled |-> [t |-> "boolean", v |-> TRUE]],
                 [pluginEnabled |-> [t |-> "boolean", v |-> TRUE],
                  preferences |-> [t |-> "preferences",
                                   v |-> [proactiveEnabled |-> FALSE]]],
                 [pluginEnabled |-> [t |-> "boolean", v |-> TRUE],
                  rules |-> [t |-> "rules",
                             v |-> <<[config |-> [chatEnabled |-> TRUE]]>>]]}}

MalformedMetadata ==
    {[shape |-> "string"],
     [shape |-> "object", raw |-> [pluginEnabled |-> Str("yes")]],
     [shape |-> "object",
      raw |-> [pluginEnabled |-> [t |-> "boolean", v |-> TRUE],
               rules |-> Str("none")]]}

MetadataPool == {NoMetadata} \cup ValidMetadata \cup MalformedMetadata

-----------------------------------------------------------------------------
(* State machines of the pure functions: Init draws the arguments, the     *)
(* action is the call.                                                     *)

RuleIdle ==
    /\ notebook = <<CodeErrorCell>> /\ cellIndex = 0 /\ configRules = <<>>
    /\ rulesConfig = NotRun /\ cellConfig = NotRun /\ rulePc = "idle"
PredIdle ==
    /\ predicate = [kind |-> "empty"] /\ predValue = NotRun /\ predPc = "idle"
MergeIdle ==
    /\ mergeCurrent = baseConfig /\ mergeUpdate = <<>>
    /\ mergeOut = NotRun /\ mergePc = "idle"
RetrieverIdle ==
    /\ retrieverConfig = NotRun /\ sourceLinks = <<>>
    /\ cachedContext = Null
    /\ task = "idle" /\ timerFired = FALSE
    /\ taskScrape = NotRun /\ callerScrape = NotRun
    /\ reader = [state |-> "idle"] /\ writes = NotRun
StoreIdle ==
    /\ notebookStateByPath = <<>> /\ storeCall = NotRun
PluginIdle ==
    /\ nbMetadata = NoMetadata /\ storeEntry = NotRun
    /\ attached = FALSE /\ listening = FALSE
    /\ containers = <<>> /\ executions = 0 /\ lastExecuted = NotRun
    /\ syncLog = NotRun
    /\ StoreIdle
ExpandIdle ==
    /\ expandInput = NotRun /\ expandOut = NotRun /\ expandPc = "idle"

\* applyConfigRules(notebookModel, cellIndex, configRules)
InitRules ==
    /\ \E nb \in Notebooks({CodeErrorCell, MarkdownCell}) :
       \E index \in 0..(Len(nb) - 1) :
       \E meta \in CellMetadataPool :
            /\ notebook = [nb EXCEPT ![index + 1].jupytutor = meta]
            /\ cellIndex = index
    /\ configRules \in RuleLists
    /\ rulesConfig = NotRun /\ cellConfig = NotRun /\ rulePc = "input"
    /\ PredIdle /\ MergeIdle /\ RetrieverIdle /\ PluginIdle /\ ExpandIdle

ApplyConfigRules ==
    /\ rulePc = "input"
    /\ rulesConfig' = RuleLoop(configRules, notebook, cellIndex, baseConfig)
    /\ cellConfig' = applyConfigRules(notebook, cellIndex, configRules)
    /\ rulePc' = "resolved"
    /\ UNCHANGED <<notebook, cellIndex, configRules, predVars, mergeVars,
                   retrieverVars, pluginVars, expandVars>>

NextRules == ApplyConfigRules

SpecRules == InitRules /\ [][NextRules]_vars

\* evaluatePredicate(predicate, getCellContext, cellIndex)
InitPredicate ==
    /\ notebook \in Notebooks(CellPool)
    /\ cellIndex \in 0..(Len(notebook) - 1)
    /\ configRules = <<>>
    /\ rulesConfig = NotRun /\ cellConfig = NotRun /\ rulePc = "idle"
    /\ predicate \in PredicatePool
    /\ predValue = NotRun /\ predPc = "input"
    /\ MergeIdle /\ RetrieverIdle /\ PluginIdle /\ ExpandIdle

EvaluatePredicate ==
    /\ predPc = "input"
    /\ IF evaluatePredicateThrows(predicate, notebook, cellIndex)
       THEN predValue' = [threw |-> "TypeError"] /\ predPc' = "threw"
       ELSE /\ predValue' = evaluatePredicate(predicate, notebook, cellIndex)
            /\ predPc' = "evaluated"
    /\ UNCHANGED <<predicate, ruleVars, mergeVars, retrieverVars,
                   pluginVars, expandVars>>

NextPredicate == EvaluatePredicate

SpecPredicate == InitPredicate /\ [][NextPredicate]_vars

\* mergeRuleConfigs(current, update)
InitMerge ==
    /\ \E note \in PriorNotes :
            mergeCurrent = [baseConfig EXCEPT !.instructorNote = note]
    /\ mergeUpdate \in MergeUpdates
    /\ mergeOut = NotRun /\ mergePc = "input"
    /\ RuleIdle /\ PredIdle /\ RetrieverIdle /\ PluginIdle /\ ExpandIdle

MergeRuleConfigs ==
    /\ mergePc = "input"
    /\ mergeOut' = mergeRuleConfigs(mergeCurrent, mergeUpdate)
    /\ mergePc' = "merged"
    /\ UNCHANGED <<mergeCurrent, mergeUpdate, ruleVars, predVars,
                   retrieverVars, pluginVars, expandVars>>

NextMerge == MergeRuleConfigs

SpecMerge == InitMerge /\ [][NextMerge]_vars

\* expandJupyterBookLinks(sourceLinks, jupyterbookURLs)
InitExpand ==
    /\ expandInput \in ExpandInputs
    /\ expandOut = NotRun /\ expandPc = "input"
    /\ RuleIdle /\ PredIdle /\ MergeIdle /\ RetrieverIdle /\ PluginIdle

ExpandJupyterBookLinks ==
    /\ expandPc = "input"
    /\ expandOut' = ExpandResult(expandInput)
    /\ expandPc' = "returned"
    /\ UNCHANGED <<expandInput, ruleVars, predVars, mergeVars,
                   retrieverVars, pluginVars>>

NextExpand == ExpandJupyterBookLinks

SpecExpand == InitExpand /\ [][NextExpand]_vars

\* findJupyterBookLinks(pageUrl, jupyterbookURL)
InitFind ==
    /\ expandInput \in FindInputs
    /\ expandOut = NotRun /\ expandPc = "page"
    /\ RuleIdle /\ PredIdle /\ MergeIdle /\ RetrieverIdle /\ PluginIdle

FindJupyterBookLinks ==
    /\ expandPc = "page"
    /\ expandOut' = [links |-> findJupyterBookLinks(expandInput.pageUrl,
                                    expandInput.jupyterbookURL,
                                    expandInput.response)]
    /\ expandPc' = "found"
    /\ UNCHANGED <<expandInput, ruleVars, predVars, mergeVars,
                   retrieverVars, pluginVars>>

NextFind == FindJupyterBookLinks

SpecFind == InitFind /\ [][NextFind]_vars

\* normalizeUrl(url), for two URLs, and normalizeUrl of what it returned
InitNormalize ==
    /\ expandInput \in [url : NormalizeUrlPool, other : NormalizeUrlPool]
    /\ expandOut = NotRun /\ expandPc = "url"
    /\ RuleIdle /\ PredIdle /\ MergeIdle /\ RetrieverIdle /\ PluginIdle

NormalizeUrl ==
    /\ expandPc = "url"
    /\ expandOut' = [key |-> normalizeUrl(expandInput.url),
                     otherKey |-> normalizeUrl(expandInput.other),
                     again |-> normalizeUrl(normalizeUrl(expandInput.url))]
    /\ expandPc' = "normalized"
    /\ UNCHANGED <<expandInput, ruleVars, predVars, mergeVars,
                   retrieverVars, pluginVars>>

NextNormalize == NormalizeUrl

SpecNormalize == InitNormalize /\ [][NextNormalize]_vars

-----------------------------------------------------------------------------
(* The context retriever: the constructor, the async function whose        *)
(* promise is _loadedPromise (the task), the soft timeout, the page        *)
(* fetches, and callers of the public methods.                             *)

\* this._whitelistedURLs = whitelistedURLs ?? []
whitelistedURLs ==
    IF retrieverConfig.whitelistedURLs = Null THEN <<>>
    ELSE retrieverConfig.whitelistedURLs.list

blacklistedURLs == retrieverConfig.blacklistedURLs

Text(s) == [text |-> s]

Counted(n) == Min(n + 1, MaxWrites)

\* _loadedPromise and _softTimeoutPromise are resolved
Loaded == task = "returned"
\* a soft timeout promise that is the loaded promise alone
SoftTimeoutWithoutTimer == Loaded
SoftTimedOut == Loaded \/ timerFired

\* scrapeSourceLinks up to its first await, called by who ("task" or
\* "caller") when _sourceLinks holds links: the early return of an empty
\* list, else the two filters and the launch of one fetch for each link left
ScrapeStart(who, links) ==
    LET filtered == FilterSourceLinks(links, whitelistedURLs, blacklistedURLs)
        assigns == Len(whitelistedURLs) > 0 \/ Len(blacklistedURLs) > 0
        call == [input |-> links,
                 links |-> IF Len(links) = 0 THEN <<>> ELSE filtered,
                 results |-> IF Len(links) = 0 THEN <<>>
                             ELSE [k \in DOMAIN filtered |-> "pending"],
                 done |-> Len(links) = 0]
    IN  /\ IF who = "task"
           THEN taskScrape' = call /\ UNCHANGED callerScrape
           ELSE /\ callerScrape' = IF call.done THEN NotRun ELSE call
                /\ UNCHANGED taskScrape
        /\ IF Len(links) = 0
           THEN /\ cachedContext' = Null
                /\ sourceLinks' = links
                /\ writes' = IF who = "task"
                             THEN [writes EXCEPT !.context = Counted(@)]
                             ELSE writes
           ELSE /\ UNCHANGED cachedContext
                /\ sourceLinks' = filtered
                /\ writes' = IF who = "task" /\ assigns
                             THEN [writes EXCEPT !.links = Counted(@)]
                             ELSE writes

InitRetriever ==
    /\ retrieverConfig \in RetrieverConfigs
    /\ sourceLinks = <<>> /\ cachedContext = Null
    /\ task = "Uninitialized" /\ timerFired = FALSE
    /\ taskScrape = NotRun /\ callerScrape = NotRun
    /\ reader = [state |-> "idle"]
    /\ writes = [links |-> 0, context |-> 0]
    /\ RuleIdle /\ PredIdle /\ MergeIdle /\ PluginIdle /\ ExpandIdle

\* new GlobalNotebookContextRetrieval(config): the field assignments and the
\* async function up to its first await
Construct ==
    /\ task = "Uninitialized"
    /\ IF retrieverConfig.debug
       THEN /\ task' = "returned"
            /\ sourceLinks' = retrieverConfig.sourceLinks
            /\ UNCHANGED <<cachedContext, taskScrape, callerScrape, writes>>
       ELSE IF retrieverConfig.attemptJupyterbookLinkExpansion
       THEN /\ task' = "expanding"
            /\ sourceLinks' = retrieverConfig.sourceLinks
            /\ UNCHANGED <<cachedContext, taskScrape, callerScrape, writes>>
       ELSE /\ task' = "returned"
            /\ ScrapeStart("task", retrieverConfig.sourceLinks)
    /\ UNCHANGED <<retrieverConfig, timerFired, reader>>
    /\ UNCHANGED <<ruleVars, predVars, mergeVars, pluginVars, expandVars>>

\* _expandJupyterBookLinksAsync after Promise.all: the link discovery of
\* every book link has ended and the result is stored
ExpansionCompletes ==
    /\ task = "expanding"
    /\ LET links == retrieverConfig.sourceLinks
           books == retrieverConfig.jupyterbookURLs
       IN  \E responses \in [DOMAIN JupyterBookUrls(links, books)
                                -> BookPageResponses] :
                /\ expandInput' = [sourceLinks |-> links,
                                   jupyterbookURLs |-> books,
                                   responses |-> responses]
                /\ expandOut' = ExpandResult(expandInput')
                /\ sourceLinks' = expandOut'.links
    /\ expandPc' = "returned"
    /\ writes' = [writes EXCEPT !.links = Counted(@)]
    /\ task' = "expanded"
    /\ UNCHANGED <<retrieverConfig, cachedContext, timerFired, taskScrape,
                   callerScrape, reader>>
    /\ UNCHANGED <<ruleVars, predVars, mergeVars, pluginVars>>

\* an expansion whose rejection ends the task: no catch, no scraping
ExpansionFailsAndTaskEnds ==
    /\ task = "expanding"
    /\ expandPc' = "threw"
    /\ task' = "returned"
    /\ UNCHANGED <<retrieverConfig, sourceLinks, cachedContext, timerFired,
                   taskScrape, callerScrape, reader, writes>>
    /\ UNCHANGED <<expandInput, expandOut>>
    /\ UNCHANGED <<ruleVars, predVars, mergeVars, pluginVars>>

\* expandJupyterBookLinks rejects: the catch of _expandJupyterBookLinksAsync
\* logs the error and _sourceLinks keeps the list it had
ExpansionFails ==
    /\ task = "expanding"
    /\ expandPc' = "threw"
    /\ task' = "expanded"
    /\ UNCHANGED <<retrieverConfig, sourceLinks, cachedContext, timerFired,
                   taskScrape, callerScrape, reader, writes>>
    /\ UNCHANGED <<expandInput, expandOut>>
    /\ UNCHANGED <<ruleVars, predVars, mergeVars, pluginVars>>

\* the task goes on after the expansion: this.scrapeSourceLinks(), not
\* awaited, and the async function returns
TaskScrapes ==
    /\ task = "expanded"
    /\ ScrapeStart("task", sourceLinks)
    /\ task' = "returned"
    /\ UNCHANGED <<retrieverConfig, timerFired, reader>>
    /\ UNCHANGED <<ruleVars, predVars, mergeVars, pluginVars, expandVars>>

\* scrapeSourceLinks is a public method: a caller runs it
CallerScrapes ==
    /\ task # "Uninitialized"
    /\ callerScrape = NotRun
    /\ ScrapeStart("caller", sourceLinks)
    /\ UNCHANGED <<retrieverConfig, task, timerFired, reader>>
    /\ UNCHANGED <<ruleVars, predVars, mergeVars, pluginVars, expandVars>>

\* a pass whose fetches are dropped when the soft timeout fires
InFlightUntilSoftTimeout(call) == call # NotRun /\ ~call.done /\ ~timerFired

InFlight(call) == call # NotRun /\ ~call.done

\* scrapePageText of one link of the task's pass resolves: the text of the
\* page, or null
FetchResolves ==
    /\ InFlight(taskScrape)
    /\ \E k \in DOMAIN taskScrape.results :
       \E outcome \in {"ok", "null"} :
            /\ taskScrape.results[k] = "pending"
            /\ taskScrape' = [taskScrape EXCEPT !.results[k] = outcome]
    /\ UNCHANGED <<retrieverConfig, sourceLinks, cachedContext, task,
                   timerFired, callerScrape, reader, writes>>
    /\ UNCHANGED <<ruleVars, predVars, mergeVars, pluginVars, expandVars>>

\* a pass in which one fetch that yields null fails the whole pass
ScrapedContextAllOrNothing(call) ==
    IF \E k \in DOMAIN call.results : call.results[k] # "ok" THEN Null
    ELSE IF call.links = <<>> THEN Null
    ELSE Text(JoinTexts([k \in DOMAIN call.links |-> ScrapedText(call.links[k])]))

\* a pass that stores the joined texts as they are, the empty string too
ScrapedContextKeepingEmpty(call) ==
    LET Fetched(k) == call.results[k] = "ok"
        kept == SelectSeq([k \in DOMAIN call.links |-> k], Fetched)
    IN  Text(JoinTexts([i \in DOMAIN kept |-> ScrapedText(call.links[kept[i]])]))

\* what lines 428-440 store once Promise.all has resolved
ScrapedContext(call) ==
    LET Fetched(k) == call.results[k] = "ok"
        kept == SelectSeq([k \in DOMAIN call.links |-> k], Fetched)
        scrapedTexts ==
            JoinTexts([i \in DOMAIN kept |-> ScrapedText(call.links[kept[i]])])
    IN  IF scrapedTexts = <<>> THEN Null ELSE Text(scrapedTexts)

AllResolved(call) == \A k \in DOMAIN call.results : call.results[k] # "pending"

\* scrapeSourceLinks after its await: the context is stored
ScrapeFinishes ==
    /\ InFlight(taskScrape) /\ AllResolved(taskScrape)
    /\ cachedContext' = ScrapedContext(taskScrape)
    /\ taskScrape' = [taskScrape EXCEPT !.done = TRUE]
    /\ writes' = [writes EXCEPT !.context = Counted(@)]
    /\ UNCHANGED <<retrieverConfig, sourceLinks, task, timerFired,
                   callerScrape, reader>>
    /\ UNCHANGED <<ruleVars, predVars, mergeVars, pluginVars, expandVars>>

\* the pass a caller started ends: every fetch of it has resolved, all
\* with the text of their page or all with null
CallerScrapeFinishes ==
    /\ InFlight(callerScrape)
    /\ \E outcome \in {"ok", "null"} :
            cachedContext' =
                ScrapedContext([callerScrape EXCEPT !.results =
                                    [k \in DOMAIN callerScrape.links |-> outcome]])
    /\ callerScrape' = NotRun
    /\ UNCHANGED <<retrieverConfig, sourceLinks, task, timerFired,
                   taskScrape, reader, writes>>
    /\ UNCHANGED <<ruleVars, predVars, mergeVars, pluginVars, expandVars>>

\* the callback of setTimeout(resolve, SOFT_TIMEOUT)
TimerFires ==
    /\ task # "Uninitialized"
    /\ ~timerFired
    /\ timerFired' = TRUE
    /\ UNCHANGED <<retrieverConfig, sourceLinks, cachedContext, task,
                   taskScrape, callerScrape, reader, writes>>
    /\ UNCHANGED <<ruleVars, predVars, mergeVars, pluginVars, expandVars>>

\* a caller enters getContext(enforcing) or getSourceLinks(enforcing) and
\* awaits the promise
CallReader ==
    /\ task # "Uninitialized"
    /\ reader.state \in {"idle", "returned"}
    /\ \E op \in {"getContext", "getSourceLinks"} :
       \E enforcing \in BOOLEAN :
            reader' = [state |-> "waiting", op |-> op, enforcing |-> enforcing]
    /\ UNCHANGED <<retrieverConfig, sourceLinks, cachedContext, task,
                   timerFired, taskScrape, callerScrape, writes>>
    /\ UNCHANGED <<ruleVars, predVars, mergeVars, pluginVars, expandVars>>

\* the awaited promise is resolved: the method returns the field
ReaderReturns ==
    /\ reader.state = "waiting"
    /\ IF reader.enforcing THEN Loaded ELSE SoftTimedOut
    /\ reader' = [state |-> "returned", op |-> reader.op,
                  enforcing |-> reader.enforcing,
                  value |-> IF reader.op = "getContext" THEN cachedContext
                            ELSE [links |-> sourceLinks]]
    /\ UNCHANGED <<retrieverConfig, sourceLinks, cachedContext, task,
                   timerFired, taskScrape, callerScrape, writes>>
    /\ UNCHANGED <<ruleVars, predVars, mergeVars, pluginVars, expandVars>>

NextRetriever ==
    \/ Construct
    \/ ExpansionCompletes
    \/ ExpansionFails
    \/ TaskScrapes
    \/ FetchResolves
    \/ ScrapeFinishes
    \/ TimerFires
    \/ CallReader
    \/ ReaderReturns

SpecRetriever == InitRetriever /\ [][NextRetriever]_vars

\* the retriever when every outstanding fetch resolves or fails in the end
\* (the link discovery of the expansion and the page fetches of the pass) and
\* the event loop runs the continuations that are ready
FairnessRetriever ==
    /\ WF_vars(ExpansionCompletes \/ ExpansionFails)
    /\ WF_vars(TaskScrapes)
    /\ WF_vars(FetchResolves)
    /\ WF_vars(ScrapeFinishes)

SpecRetrieverFair == SpecRetriever /\ FairnessRetriever

\* the retriever with a caller that also runs the public scrapeSourceLinks
NextRetrieverCallers ==
    \/ NextRetriever
    \/ CallerScrapes
    \/ CallerScrapeFinishes

SpecRetrieverCallers == InitRetriever /\ [][NextRetrieverCallers]_vars

-----------------------------------------------------------------------------
(* The plugin: one notebook, attachNotebook, the listeners it connects,    *)
(* the handler of NotebookActions.executed and the preference switch of    *)
(* the chat menu.                                                          *)

\* the notebooks the plugin is attached to: no two cells alike
PluginNotebooks ==
    {nb \in Notebooks({CodeErrorCell, MarkdownCell}) :
        \A i, j \in DOMAIN nb : nb[i] = nb[j] => i = j}

InitPlugin ==
    /\ notebook \in PluginNotebooks
    /\ cellIndex = 0 /\ configRules = <<>>
    /\ rulesConfig = NotRun /\ cellConfig = NotRun /\ rulePc = "idle"
    /\ nbMetadata \in MetadataPool
    /\ storeEntry = NotRun
    /\ attached = FALSE /\ listening = FALSE
    /\ containers = [i \in DOMAIN notebook |-> 0]
    /\ executions = 0 /\ lastExecuted = NotRun
    /\ syncLog = NotRun
    /\ StoreIdle
    /\ PredIdle /\ MergeIdle /\ RetrieverIdle /\ ExpandIdle

ensureDraftHasNotebook(entry) ==
    IF entry # NotRun THEN entry
    ELSE [widgetStateByCellId |-> [i \in DOMAIN notebook |-> NotRun],
          notebookConfig |-> Null,
          parsedCells |-> FALSE,
          globalNotebookContextRetriever |-> FALSE]

\* attachNotebook once the panel is ready and revealed. When the parse in
\* attachNotebookMetadata throws, setState has stored nothing, no listener
\* is connected and the catch of attachNotebook ends the call.
AttachNotebook ==
    /\ ~attached
    /\ attached' = TRUE
    /\ IF LoadSucceeds(nbMetadata)
       THEN LET notebookConfig == loadConfigurationFromNotebookModel(nbMetadata)
                entry == [ensureDraftHasNotebook(storeEntry)
                            EXCEPT !.notebookConfig = notebookConfig]
            IN  /\ listening' = TRUE
                /\ storeEntry' =
                    IF notebookConfig.pluginEnabled
                    THEN [entry EXCEPT !.parsedCells = TRUE,
                             !.globalNotebookContextRetriever = TRUE]
                    ELSE entry
       ELSE UNCHANGED <<storeEntry, listening>>
    /\ UNCHANGED <<nbMetadata, containers, executions, lastExecuted,
                   syncLog>>
    /\ UNCHANGED <<ruleVars, predVars, mergeVars, retrieverVars, expandVars,
                   storeVars>>

\* the notebook's 'jupytutor' metadata is given another value from outside
\* the plugin; the slot, when connected, parses update.newValue inside
\* produce: a throw leaves the store as it was
MetadataChanged ==
    /\ \E newValue \in MetadataPool :
        /\ newValue # nbMetadata
        /\ IF listening
           THEN LET old == storeEntry.notebookConfig
                    synced ==
                        IF ConfigParseSucceeds(newValue)
                        THEN StoreConfigChanged(newValue, old,
                                parseConfiguration(newValue), MaxSyncSteps)
                        ELSE [metadata |-> newValue, notebookConfig |-> old,
                              writes |-> 0, quiesced |-> TRUE]
                IN  /\ nbMetadata' = synced.metadata
                    /\ storeEntry' = [storeEntry EXCEPT
                            !.notebookConfig = synced.notebookConfig]
                    /\ syncLog' = [origin |-> "metadata",
                                   parsed |-> ConfigParseSucceeds(newValue),
                                   writes |-> synced.writes,
                                   quiesced |-> synced.quiesced]
           ELSE /\ nbMetadata' = newValue
                /\ UNCHANGED <<storeEntry, syncLog>>
    /\ UNCHANGED <<attached, listening, containers, executions, lastExecuted>>
    /\ UNCHANGED <<ruleVars, predVars, mergeVars, retrieverVars, expandVars,
                   storeVars>>

\* a handler that asks the rules only
ProactiveByRulesAlone(refreshed, notebookConfig) == refreshed.chatProactive

\* lines 310-314: proactiveEnabledForCell
ProactiveEnabledForCell(refreshed, notebookConfig) ==
    refreshed.chatProactive /\ notebookConfig.preferences.proactiveEnabled

\* a handler that appends its container and removes none
AppendContainer(count) == count + 1

\* lines 326-338: the first .jp-jupytutor-container of the cell's node, when
\* there is one, is removed, and a new container is appended
AttachContainer(count) == (IF count > 0 THEN count - 1 ELSE 0) + 1

\* the handler of NotebookActions.executed for the cell at index i - 1
CellExecuted ==
    /\ executions < MaxExecutions
    /\ executions' = executions + 1
    /\ \E i \in DOMAIN notebook :
        IF storeEntry = NotRun
        THEN \* notebookStateByPath[notebookPath] is undefined: TypeError
             /\ lastExecuted' = [cell |-> i, outcome |-> "threw"]
             /\ UNCHANGED <<storeEntry, containers>>
        ELSE IF storeEntry.notebookConfig = Null
        THEN /\ lastExecuted' = [cell |-> i, outcome |-> "disabled"]
             /\ UNCHANGED <<storeEntry, containers>>
        ELSE IF ~storeEntry.notebookConfig.pluginEnabled
        THEN /\ lastExecuted' = [cell |-> i, outcome |-> "disabled"]
             /\ UNCHANGED <<storeEntry, containers>>
        ELSE LET notebookConfig == storeEntry.notebookConfig
                 refreshed == applyConfigRules(notebook, i - 1,
                                               notebookConfig.rules)
                 stored == [storeEntry EXCEPT !.widgetStateByCellId[i] =
                                [cellConfig |-> refreshed]]
                 proactiveEnabledForCell ==
                    ProactiveEnabledForCell(refreshed, notebookConfig)
             IN  IF refreshed.chatEnabled /\ proactiveEnabledForCell
                 THEN /\ storeEntry' = [stored EXCEPT !.parsedCells = TRUE]
                      /\ containers' = [containers EXCEPT
                            ![i] = AttachContainer(@)]
                      /\ lastExecuted' = [cell |-> i, outcome |-> "attached",
                                          removed |-> containers[i] > 0]
                 ELSE /\ storeEntry' = stored
                      /\ UNCHANGED containers
                      /\ lastExecuted' = [cell |-> i, outcome |-> "declined"]
    /\ UNCHANGED <<nbMetadata, attached, listening, syncLog>>
    /\ UNCHANGED <<ruleVars, predVars, mergeVars, retrieverVars, expandVars,
                   storeVars>>

\* the menu item of ChatMenu that switches preferences.proactiveEnabled, in
\* a widget that is shown
ToggleProactive ==
    /\ \E i \in DOMAIN containers : containers[i] > 0
    /\ storeEntry # NotRun
    /\ storeEntry.notebookConfig # Null
    /\ LET old == storeEntry.notebookConfig
           new == [old EXCEPT !.preferences.proactiveEnabled = ~@]
           synced == IF listening
                     THEN StoreConfigChanged(nbMetadata, old, new, MaxSyncSteps)
                     ELSE [metadata |-> nbMetadata, notebookConfig |-> new,
                           writes |-> 0, quiesced |-> TRUE]
       IN  /\ nbMetadata' = synced.metadata
           /\ storeEntry' = [storeEntry EXCEPT
                    !.notebookConfig = synced.notebookConfig]
           /\ syncLog' = [origin |-> "store",
                          held |-> HoldsMetadata(nbMetadata),
                          listening |-> listening,
                          writes |-> synced.writes,
                          quiesced |-> synced.quiesced]
    /\ UNCHANGED <<attached, listening, containers, executions, lastExecuted>>
    /\ UNCHANGED <<ruleVars, predVars, mergeVars, retrieverVars, expandVars,
                   storeVars>>

NextPlugin ==
    \/ AttachNotebook
    \/ MetadataChanged
    \/ CellExecuted
    \/ ToggleProactive

SpecPlugin == InitPlugin /\ [][NextPlugin]_vars

-----------------------------------------------------------------------------
(* The store on its own: the setters of useJupytutorReactState called, in  *)
(* any order, for the paths of two notebooks and the cells of the          *)
(* notebook. A setter that throws inside produce leaves the state as it    *)
(* was.                                                                    *)

Paths == {"a.ipynb", "b.ipynb"}

DEFAULT_WIDGET_STATE ==
    [cellConfig |-> Null, chatHistory |-> <<>>, liveResult |-> Null,
     isLoading |-> FALSE]

\* lines 83-94
ensureDraftHasNotebookCell(state, notebookPath, cellId) ==
    LET withNotebook ==
            [state EXCEPT ![notebookPath] = ensureDraftHasNotebook(@)]
    IN  [withNotebook EXCEPT ![notebookPath].widgetStateByCellId[cellId] =
            IF @ = NotRun THEN DEFAULT_WIDGET_STATE ELSE @]

InitStore ==
    /\ notebook = <<CodeErrorCell, MarkdownCell>>
    /\ cellIndex = 0 /\ configRules = <<>>
    /\ rulesConfig = NotRun /\ cellConfig = NotRun /\ rulePc = "idle"
    /\ nbMetadata = NoMetadata /\ storeEntry = NotRun
    /\ attached = FALSE /\ listening = FALSE
    /\ containers = <<>> /\ executions = 0 /\ lastExecuted = NotRun
    /\ syncLog = NotRun
    /\ notebookStateByPath = [path \in Paths |-> NotRun]
    /\ storeCall = [count |-> 0, setter |-> "none", path |-> "none",
                    outcome |-> "none"]
    /\ PredIdle /\ MergeIdle /\ RetrieverIdle /\ ExpandIdle

StoreFrame ==
    /\ UNCHANGED <<nbMetadata, storeEntry, attached, listening, containers,
                   executions, lastExecuted, syncLog>>
    /\ UNCHANGED <<ruleVars, predVars, mergeVars, retrieverVars, expandVars>>

Called(setter, notebookPath, outcome) ==
    [count |-> storeCall.count + 1, setter |-> setter,
     path |-> notebookPath, outcome |-> outcome]

\* a setter that goes through cellData (lines 112-152)
SetCellField(setter, field, values) ==
    /\ storeCall.count < MaxStoreCalls
    /\ \E notebookPath \in Paths, cellId \in DOMAIN notebook, value \in values :
        /\ notebookStateByPath' =
            [ensureDraftHasNotebookCell(notebookStateByPath, notebookPath,
                                        cellId)
                EXCEPT ![notebookPath].widgetStateByCellId[cellId][field] =
                            value]
        /\ storeCall' = Called(setter, notebookPath, "returned")
    /\ StoreFrame

\* a setter that writes draft.notebookStateByPath[notebookPath].field
\* (lines 154-179): a TypeError when the path has no entry
SetNotebookField(setter, field, value) ==
    /\ storeCall.count < MaxStoreCalls
    /\ \E notebookPath \in Paths :
        IF notebookStateByPath[notebookPath] = NotRun
        THEN /\ storeCall' = Called(setter, notebookPath, "threw")
             /\ UNCHANGED notebookStateByPath
        ELSE /\ notebookStateByPath' =
                    [notebookStateByPath EXCEPT ![notebookPath][field] = value]
             /\ storeCall' = Called(setter, notebookPath, "returned")
    /\ StoreFrame

setChatHistory ==
    SetCellField("setChatHistory", "chatHistory", {<<>>, <<"message">>})
setLiveResult == SetCellField("setLiveResult", "liveResult", {<<"result">>})
setIsLoading == SetCellField("setIsLoading", "isLoading", {TRUE})
setRefreshedCellConfig ==
    SetCellField("setRefreshedCellConfig", "cellConfig", {baseConfig})
setNotebookConfig ==
    SetNotebookField("setNotebookConfig", "notebookConfig",
                     loadConfigurationFromNotebookModel(NoMetadata))
setNotebookParsedCells ==
    SetNotebookField("setNotebookParsedCells", "parsedCells", TRUE)
setGlobalNotebookContextRetriever ==
    SetNotebookField("setGlobalNotebookContextRetriever",
                     "globalNotebookContextRetriever", TRUE)

\* the setState of attachNotebookMetadata (index.ts, lines 49-56)
LoadNotebookConfig ==
    /\ storeCall.count < MaxStoreCalls
    /\ \E notebookPath \in Paths :
        /\ notebookStateByPath' =
            [notebookStateByPath EXCEPT ![notebookPath] =
                [ensureDraftHasNotebook(@) EXCEPT !.notebookConfig =
                    loadConfigurationFromNotebookModel(NoMetadata)]]
        /\ storeCall' = Called("attachNotebookMetadata", notebookPath,
                               "returned")
    /\ StoreFrame

NextStore ==
    \/ setChatHistory
    \/ setLiveResult
    \/ setIsLoading
    \/ setRefreshedCellConfig
    \/ setNotebookConfig
    \/ setNotebookParsedCells
    \/ setGlobalNotebookContextRetriever
    \/ LoadNotebookConfig

SpecStore == InitStore /\ [][NextStore]_vars

-----------------------------------------------------------------------------
(* Properties of the rule resolver.                                        *)

Max(S) == CHOOSE x \in S : \A y \in S : y <= x

\* the rules of the list that apply to the cell and hold key themselves
ExplicitRules(key) ==
    {i \in DOMAIN configRules :
        /\ RuleApplies(configRules[i], notebook, cellIndex)
        /\ Has(configRules[i].config, key)}

LastExplicitValue(key) ==
    IF ExplicitRules(key) = {} THEN baseConfig[key]
    ELSE configRules[Max(ExplicitRules(key))].config[key]

NoRuleUsesPlaceholder ==
    \A i \in DOMAIN configRules :
        Has(configRules[i].config, "instructorNote")
            => ~IncludesToken(configRules[i].config.instructorNote,
                              priorNotesPlaceholder)

\* C2: when the rule loop has ended, every key (instructorNote when no rule
\* uses the placeholder) holds the value of the last rule in list order that
\* applies and holds the key itself, or the schema default when there is none.
C2_LastExplicitRuleWins ==
    rulePc = "resolved" =>
        \A key \in ConfigKeys :
            (key = "instructorNote" => NoRuleUsesPlaceholder)
                => rulesConfig[key] = LastExplicitValue(key)

TargetMetadata == notebook[cellIndex + 1].jupytutor

TargetIsValidObject ==
    TargetMetadata \in ValidCellMetadata

CellHolds(key) == TargetIsValidObject /\ Has(TargetMetadata.raw, key)

\* C3 as stated: the result is the rules-only result with exactly the keys
\* present in the cell's valid metadata replaced by the cell's values.
C3_CellValuesReplaceRuleValues ==
    rulePc = "resolved" =>
        \A key \in ConfigKeys :
            cellConfig[key] = IF CellHolds(key) THEN TargetMetadata.raw[key].v
                              ELSE rulesConfig[key]

\* C3 amended: as C3, except that a cell instructorNote holding the
\* placeholder is not taken as it is: the result is the cell's note with the
\* first placeholder replaced by what String.prototype.replace makes of the
\* rule-derived note.
C3_CellValuesReplaceRuleValuesButPlaceholder ==
    rulePc = "resolved" =>
        \A key \in ConfigKeys :
            cellConfig[key] =
                IF ~CellHolds(key) THEN rulesConfig[key]
                ELSE IF key = "instructorNote"
                        /\ IncludesToken(TargetMetadata.raw[key].v,
                                         priorNotesPlaceholder)
                     THEN StringReplace(TargetMetadata.raw[key].v,
                                        priorNotesPlaceholder,
                                        rulesConfig.instructorNote)
                     ELSE TargetMetadata.raw[key].v

\* a cell that sets its note and leaves chatEnabled to a rule that enabled it
C3_Witness ==
    /\ rulePc = "resolved"
    /\ CellHolds("instructorNote") /\ ~CellHolds("chatEnabled")
    /\ rulesConfig.chatEnabled = TRUE /\ cellConfig.chatEnabled = TRUE
    /\ cellConfig.instructorNote # rulesConfig.instructorNote

\* C6: a cell whose jupytutor metadata is missing, null, no object, an array
\* or an object failing validation resolves as the same cell without any
\* jupytutor metadata: the result of the rule loop.
C6_InvalidCellMetadataIgnored ==
    rulePc = "resolved" /\ TargetMetadata \in InvalidCellMetadata \cup {NoMetadata}
        => /\ cellConfig = rulesConfig
           /\ cellConfig =
                applyConfigRules(
                    [notebook EXCEPT ![cellIndex + 1].jupytutor = NoMetadata],
                    cellIndex, configRules)

\* an object that fails validation although one of its fields is well typed
\* and differs from what the rules gave
C6_Witness ==
    /\ rulePc = "resolved"
    /\ TargetMetadata \in InvalidObjectMetadata
    /\ \E key \in ConfigKeys \cap DOMAIN TargetMetadata.raw :
            /\ TargetMetadata.raw[key].t = SchemaType(key)
            /\ TargetMetadata.raw[key].v # cellConfig[key]
    /\ cellConfig # baseConfig

-----------------------------------------------------------------------------
(* Properties of evaluatePredicate.                                        *)

InNotebook(index) == index >= 0 /\ index < Len(notebook)

\* C4: a nearbyCell predicate whose target index lies outside the notebook
\* evaluates to false, whatever its inner predicate.
C4_NearbyCellOutOfRangeIsFalse ==
    /\ predPc = "evaluated"
    /\ predicate.kind = "nearbyCell"
    /\ ~InNotebook(cellIndex + predicate.relativePosition)
    => predValue = FALSE

Evaluated == predPc = "evaluated"

\* value is what the combinator at the root of p makes of the values its
\* children have at index; true of any value when p is no combinator
CombinatorHolds(p, index, value) ==
    CASE p.kind = "AND" ->
            value = \A i \in DOMAIN p.list :
                        evaluatePredicate(p.list[i], notebook, index)
      [] p.kind = "OR" ->
            value = \E i \in DOMAIN p.list :
                        evaluatePredicate(p.list[i], notebook, index)
      [] p.kind = "NOT" -> value = ~evaluatePredicate(p.inner, notebook, index)
      [] OTHER -> TRUE

\* C19: AND is true exactly when every child is true at the index of the
\* AND (an empty AND is true), OR exactly when some child is (an empty OR is
\* false), NOT exactly when its child is false; the same for a combinator
\* under a nearbyCell, at the shifted index.
C19_CombinatorsAreExact ==
    Evaluated =>
        /\ CombinatorHolds(predicate, cellIndex, predValue)
        /\ predicate = And(<<>>) => predValue = TRUE
        /\ predicate = Or(<<>>) => predValue = FALSE
        /\ predicate.kind = "nearbyCell" =>
                CombinatorHolds(predicate.matches,
                    cellIndex + predicate.relativePosition, predValue)

\* an AND of a child that is true and a child that is false at the second
\* cell, whose first cell makes both true
C19_Witness ==
    /\ Evaluated /\ predicate.kind = "AND" /\ Len(predicate.list) = 2
    /\ cellIndex = 1
    /\ evaluatePredicate(predicate.list[1], notebook, 1)
    /\ ~evaluatePredicate(predicate.list[2], notebook, 1)
    /\ \A i \in 1..2 : evaluatePredicate(predicate.list[i], notebook, 0)
    /\ predValue = FALSE

\* the root of the predicate, or the predicate under a nearbyCell at the root
TargetPredicate ==
    IF predicate.kind = "nearbyCell" THEN predicate.matches ELSE predicate
TargetIndex ==
    IF predicate.kind = "nearbyCell"
    THEN cellIndex + predicate.relativePosition ELSE cellIndex

\* a node of unrecognized shape, a leaf with a malformed value, a leaf at an
\* index without a cell, a regex matcher whose pattern does not compile
FailClosedCase ==
    \/ TargetPredicate.kind = "empty"
    \/ TargetPredicate \in MalformedLeaves
    \/ /\ TargetPredicate \in LeafPredicates
       /\ getCellContext(notebook, TargetIndex) = Null
    \/ TargetPredicate = [kind |-> "output", m |-> Regex("[", "")]

\* C20: evaluatePredicate returns a boolean for every predicate, index and
\* notebook and never raises; a node of unrecognized shape, a leaf with a
\* malformed value, a leaf at an index without a cell and a regex that does
\* not compile evaluate to false.
C20_EvaluatePredicateNeverRaises ==
    predPc # "input" =>
        /\ Evaluated
        /\ predValue \in BOOLEAN
        /\ FailClosedCase => predValue = FALSE

\* a matcher of one of the three shapes the Predicate type allows
IsStringMatcher(sp) == sp.m \in {"literal", "is", "matchesRegex"}

\* the context of the cell the target predicate is evaluated at
TargetContext == getCellContext(notebook, TargetIndex)

OutputCase ==
    /\ Evaluated
    /\ TargetPredicate.kind = "output"
    /\ IsStringMatcher(TargetPredicate.m)
    /\ TargetContext # Null

\* C21: an output predicate is false when the outputText of the cell is
\* empty, whatever the string matcher (also a literal or an {is} equal to
\* the empty string and a regex that matches the empty string); otherwise it
\* is the string matcher applied to outputText.
C21_OutputIsFalseOnEmptyOutputText ==
    OutputCase =>
        IF TargetContext.outputText = <<>>
        THEN predValue = FALSE
        ELSE predValue = evaluateStringPredicate(TargetContext.outputText,
                                                 TargetPredicate.m)

\* the literal '' asked of a code cell whose output printed nothing
C21_Witness ==
    /\ OutputCase
    /\ predicate = [kind |-> "output", m |-> Lit(<<>>)]
    /\ notebook[cellIndex + 1] = CodeSilentCell
    /\ evaluateStringPredicate(TargetContext.outputText, predicate.m)
    /\ predValue = FALSE

\* a matcher applied to an output text that is not empty
C21_MatcherAppliedToOutput ==
    /\ OutputCase
    /\ TargetContext.outputText # <<>>
    /\ predValue = TRUE

TagsCase ==
    /\ Evaluated
    /\ TargetPredicate.kind = "tags"
    /\ TargetPredicate.quant \in {"any", "all"}
    /\ IsStringMatcher(TargetPredicate.m)
    /\ TargetContext # Null

\* the tags of the target cell, as a set
TagSet == Range(TargetContext.tags)

\* C22: tags {any: m} is true exactly when some tag of the cell matches m
\* (false for a cell without tags), tags {all: m} exactly when every tag
\* matches m (true for a cell without tags); the value depends on the set of
\* the tags only, not on their order.
C22_TagsAnyAndAll ==
    TagsCase =>
        /\ TargetPredicate.quant = "any" =>
                predValue = \E tag \in TagSet :
                                evaluateStringPredicate(tag, TargetPredicate.m)
        /\ TargetPredicate.quant = "all" =>
                predValue = \A tag \in TagSet :
                                evaluateStringPredicate(tag, TargetPredicate.m)
        /\ TagSet = {} => predValue = (TargetPredicate.quant = "all")

\* {any: 't'} asked of the cell whose tags are u, t: the tag that matches is
\* not the first
C22_Witness ==
    /\ TagsCase
    /\ predicate = [kind |-> "tags", quant |-> "any", m |-> Lit(<<"t">>)]
    /\ TargetContext.tags = <<<<"u">>, <<"t">>>>
    /\ predValue = TRUE

\* {all: m} asked of a cell without tags
C22_AllOfNoTags ==
    /\ TagsCase
    /\ TargetPredicate.quant = "all"
    /\ TagSet = {}
    /\ predValue = TRUE

-----------------------------------------------------------------------------
(* Properties of mergeRuleConfigs.                                         *)

\* C5: an update note holding the placeholder yields the update note with the
\* first placeholder replaced by the prior note, verbatim; an update note
\* without the placeholder replaces the prior note; no update note keeps it.
C5_PlaceholderTakesPriorNoteVerbatim ==
    mergePc = "merged" =>
        IF ~Has(mergeUpdate, "instructorNote")
        THEN mergeOut.instructorNote = mergeCurrent.instructorNote
        ELSE LET note == mergeUpdate.instructorNote
                 pos  == IndexOfToken(note, priorNotesPlaceholder)
             IN  IF pos = 0 THEN mergeOut.instructorNote = note
                 ELSE mergeOut.instructorNote =
                        SubSeq(note, 1, pos - 1)
                            \o mergeCurrent.instructorNote
                            \o SubSeq(note, pos + 1, Len(note))

-----------------------------------------------------------------------------
(* Properties of the context retriever.                                    *)

\* the scraping pass of the task has ended: Ready or Empty
ScrapingEnded == taskScrape # NotRun /\ taskScrape.done

SomePageScraped ==
    /\ taskScrape # NotRun
    /\ \E k \in DOMAIN taskScrape.results : taskScrape.results[k] = "ok"

EnforcingGetContextReturns ==
    /\ reader.state = "waiting" /\ reader'.state = "returned"
    /\ reader.op = "getContext" /\ reader.enforcing

\* C1: for a retriever built with debug=false and at least one source link,
\* getContext(enforcing=true) returns only once the scraping pass has ended
\* (every fetch resolved, the context stored), and what it returns is not
\* null when a page was scraped.
C1_EnforcingGetContextAwaitsScraping ==
    [][(/\ EnforcingGetContextReturns
        /\ ~retrieverConfig.debug
        /\ Len(retrieverConfig.sourceLinks) > 0)
            => /\ ScrapingEnded
               /\ SomePageScraped => reader'.value # Null]_vars

\* C7: with a non-empty whitelist the links fetched are the source links
\* that contain a whitelist entry, whatever the blacklist holds.
C7_WhitelistOverridesBlacklist ==
    taskScrape # NotRun /\ Len(whitelistedURLs) > 0
        => Range(taskScrape.links) =
                {url \in Range(taskScrape.input) :
                    SomeIncluded(url, whitelistedURLs)}

Lifecycle ==
    IF task = "Uninitialized" THEN "Uninitialized"
    ELSE IF ~ScrapingEnded THEN "Loading"
    ELSE IF cachedContext = Null THEN "Empty"
    ELSE "Ready"

LifecycleSteps ==
    {<<"Uninitialized", "Loading">>, <<"Uninitialized", "Empty">>,
     <<"Loading", "Ready">>, <<"Loading", "Empty">>}

\* C9: the task writes the stored link list in at most one of its steps and
\* the cached context in at most one, the retriever goes from Uninitialized
\* to Loading to Ready or Empty, neither field changes once Ready or Empty is
\* reached, and no step of a caller changes either field.
C9_WrittenOnceThenFrozen ==
    [][/\ writes'.links <= 1 /\ writes'.context <= 1
       /\ Lifecycle' # Lifecycle => <<Lifecycle, Lifecycle'>> \in LifecycleSteps
       /\ ScrapingEnded
            => sourceLinks' = sourceLinks /\ cachedContext' = cachedContext
       /\ callerScrape' # callerScrape
            => sourceLinks' = sourceLinks /\ cachedContext' = cachedContext
      ]_vars

NonEnforcingReaderWaits == reader.state = "waiting" /\ ~reader.enforcing

NonEnforcingReaderReturns ==
    NonEnforcingReaderWaits /\ reader'.state = "returned"

\* what the field a reader asked for holds
StoredValue(op) ==
    IF op = "getContext" THEN cachedContext ELSE [links |-> sourceLinks]

\* C11: once the soft timeout has fired, a waiting getContext(false) or
\* getSourceLinks(false) can return at once, whatever the expansion and the
\* fetches are doing, and a non-enforcing call returns the context or the
\* link list as it is stored at the step in which it returns.
C11_NonEnforcingReadersReturnAtSoftTimeout ==
    [][/\ NonEnforcingReaderWaits /\ timerFired => ENABLED ReaderReturns
       /\ NonEnforcingReaderReturns
            => /\ SoftTimedOut
               /\ reader'.value = StoredValue(reader.op)]_vars

\* a non-enforcing getContext has returned null after the timer fired while
\* the expansion or a fetch was still under way
C11_Witness ==
    /\ reader.state = "returned" /\ ~reader.enforcing
    /\ reader.op = "getContext" /\ reader.value = Null
    /\ timerFired /\ ~ScrapingEnded
    /\ \/ task = "expanding"
       \/ /\ taskScrape # NotRun
          /\ \E k \in DOMAIN taskScrape.results :
                taskScrape.results[k] = "pending"

\* a non-enforcing reader has returned at the soft timeout of a retriever
\* that scrapes, before its scraping pass ended
NonEnforcingReaderTimedOut ==
    /\ reader.state = "returned" /\ ~reader.enforcing
    /\ timerFired /\ ~ScrapingEnded
    /\ ~retrieverConfig.debug

\* C12: after a non-enforcing reader has returned at the soft timeout, the
\* scraping pass still ends (Ready or Empty) when every fetch resolves or
\* fails; from then on the context and the link list no longer change, a
\* waiting reader of either enforcing value can return, and a reader that
\* returns gets that final context or link list.
C12_SoftTimeoutDoesNotCancelBackgroundWork ==
    /\ NonEnforcingReaderTimedOut ~> ScrapingEnded
    /\ [][ScrapingEnded =>
            /\ ScrapingEnded'
            /\ cachedContext' = cachedContext /\ sourceLinks' = sourceLinks
            /\ reader.state = "waiting" => ENABLED ReaderReturns
            /\ reader.state = "waiting" /\ reader'.state = "returned"
                 => reader'.value = StoredValue(reader.op)]_vars

\* the pass has ended with a context after a getContext(false) returned null
\* at the soft timeout
C12_Witness ==
    /\ ScrapingEnded /\ timerFired /\ cachedContext # Null
    /\ reader.state = "returned" /\ ~reader.enforcing
    /\ reader.op = "getContext" /\ reader.value = Null

\* the link passes the two filters of scrapeSourceLinks
PassesFilters(link) ==
    /\ Len(whitelistedURLs) > 0 => SomeIncluded(link, whitelistedURLs)
    /\ Len(blacklistedURLs) > 0 => ~SomeIncluded(link, blacklistedURLs)

\* the list the filters are given: what the expansion returned, or the list
\* of the constructor when there was no expansion or it failed
ListBeforeFilters ==
    IF expandPc = "returned" THEN expandOut.links
    ELSE retrieverConfig.sourceLinks

EnforcingGetSourceLinksReturned ==
    /\ reader.state = "returned" /\ reader.enforcing
    /\ reader.op = "getSourceLinks"
    /\ ~retrieverConfig.debug

-----------------------------------------------------------------------------
(* Properties of expandJupyterBookLinks.                                   *)

ExpandReturned == expandPc = "returned"

IsBookLink(url) == SomeIncluded(url, expandInput.jupyterbookURLs)

\* what findJupyterBookLinks gave for the page of source link i
DiscoveredFrom(i) ==
    expandOut.allLinks[Len(JupyterBookUrls(
        SubSeq(expandInput.sourceLinks, 1, i), expandInput.jupyterbookURLs))]

\* the positions of the returned list the walk fills at source link i
EmittedAt(i) ==
    ((IF i = 1 THEN 0 ELSE expandOut.pushed[i - 1]) + 1)..expandOut.pushed[i]

\* link was discovered from the page of source link i or of a source link
\* that is the same page
DiscoveredFromPageOf(link, i) ==
    LET links == expandInput.sourceLinks
    IN  \E j \in DOMAIN links :
            /\ IsBookLink(links[j])
            /\ normalizeUrl(links[j]) = normalizeUrl(links[i])
            /\ link \in Range(DiscoveredFrom(j))

\* C13: the returned list is built by a walk through sourceLinks in order;
\* a link that is not of the book is emitted unchanged (once), and every
\* expansion link emitted at a book link was discovered from that link's
\* page and follows that link in the list with nothing between them but
\* expansion links of that page.
C13_ExpansionsFollowTheirSourceLink ==
    ExpandReturned =>
        LET links == expandInput.sourceLinks
            out == expandOut.links
        IN  /\ \A i \in DOMAIN links :
                ExpandedUpTo(expandInput, i, expandOut.allLinks) =
                    SubSeq(out, 1, expandOut.pushed[i])
            /\ \A i \in DOMAIN links :
                \A q \in EmittedAt(i) :
                    \/ out[q] = links[i]
                    \/ /\ IsBookLink(links[i])
                       /\ out[q] \in Range(DiscoveredFrom(i))
                       /\ \E p \in 1..(q - 1) :
                            /\ normalizeUrl(out[p]) = normalizeUrl(links[i])
                            /\ \A r \in (p + 1)..(q - 1) :
                                    DiscoveredFromPageOf(out[r], i)

\* the URL without its fragment and without one trailing slash of its path
NormalForm(url) ==
    LET noHash == SubSeq(url, 1, FirstOf(url, {"#"}) - 1)
    IN  IF Len(noHash) > 3 /\ noHash[Len(noHash)] = "/"
        THEN SubSeq(noHash, 1, Len(noHash) - 1) ELSE noHash

DigitRuns == <<"0", "1", "2", "3", "4", "5", "6", "7", "8", "9", "10">>
NumberOf(segment) == (CHOOSE n \in DOMAIN DigitRuns : DigitRuns[n] = segment) - 1

\* chapter and subsection of a page chapters/<chapter>[/<subsection>] of the
\* book, the bare chapter page counted as subsection 0
ChapterOf(url) ==
    NumberOf(url[(CHOOSE c \in DOMAIN url : url[c] = "chapters") + 2])
SubsectionOf(url) ==
    LET s == (CHOOSE c \in DOMAIN url : url[c] = "chapters") + 4
    IN  IF s \in DOMAIN url /\ url[s] \in Range(DigitRuns)
        THEN NumberOf(url[s]) ELSE 0

ChapterOrder(a, b) ==
    \/ ChapterOf(a) < ChapterOf(b)
    \/ ChapterOf(a) = ChapterOf(b) /\ SubsectionOf(a) <= SubsectionOf(b)

\* the positions of the expansion links emitted at source link i
ExpansionsAt(i) ==
    {q \in EmittedAt(i) : expandOut.links[q] # expandInput.sourceLinks[i]}

\* C15: the expansion links emitted after a source link are in ascending
\* order of chapter number, then of subsection number with the bare chapter
\* page as subsection 0, and none of them is the source link itself.
C15_ExpansionsInChapterOrder ==
    ExpandReturned =>
        LET links == expandInput.sourceLinks
            out == expandOut.links
        IN  \A i \in DOMAIN links :
                /\ \A p, q \in ExpansionsAt(i) :
                        p < q => ChapterOrder(out[p], out[q])
                /\ \A q \in ExpansionsAt(i) :
                        NormalForm(out[q]) # NormalForm(links[i])

\* source chapters/3/2 whose page links to chapters/3/10, chapters/3/2,
\* chapters/3/1 and chapters/3 in that order
C15_Witness ==
    /\ ExpandReturned
    /\ expandInput.sourceLinks = <<BookCh3s2>>
    /\ expandInput.responses[1].hrefs = TocHrefs
    /\ expandOut.links = <<BookCh3s2, BookCh3, BookCh3s1, BookCh3s10>>

-----------------------------------------------------------------------------
(* Properties of the link expansion inside the retriever.                  *)

\* which fetch served source link i of the expansion
ResponseFor(i) ==
    expandInput.responses[Len(JupyterBookUrls(
        SubSeq(expandInput.sourceLinks, 1, i), expandInput.jupyterbookURLs))]

\* C16: when the fetch of the page of one book link fails, that link gets
\* no expansion links, while every link found on a page that was fetched is
\* in the list; the expansion returns and the task goes on to the scraping;
\* and when the whole expansion step fails, the stored list is the original
\* list and the scraping pass is still started, on that list.
C16_LinkExpansionFailsSoft ==
    /\ expandPc = "returned" =>
        LET links == expandInput.sourceLinks
            out == expandOut.links
        IN  \A i \in DOMAIN links : IsBookLink(links[i]) =>
                IF ResponseFor(i).ok
                THEN \A k \in DOMAIN DiscoveredFrom(i) :
                     \E p \in DOMAIN out :
                        NormalForm(out[p]) = NormalForm(DiscoveredFrom(i)[k])
                ELSE ExpansionsAt(i) = {}
    /\ expandPc = "threw" /\ task = "expanded" =>
            sourceLinks = retrieverConfig.sourceLinks
    /\ task = "expanded" => ENABLED TaskScrapes
    /\ expandPc # "idle" /\ task = "returned" =>
            /\ taskScrape # NotRun
            /\ expandPc = "threw" =>
                    taskScrape.input = retrieverConfig.sourceLinks

\* of a page listed twice the first fetch failed and the second gave the
\* page: the links of the chapter are in the list, which has been scraped
C16_Witness ==
    /\ expandPc = "returned" /\ ScrapingEnded
    /\ expandInput.sourceLinks = <<BookCh3s1, BookCh3s1>>
    /\ ~expandInput.responses[1].ok /\ expandInput.responses[2].ok
    /\ expandOut.links = <<BookCh3s1, BookCh3, BookCh3s2>>

\* the whole expansion step failed and the original list has been scraped
C16_WholeStepFailed ==
    /\ expandPc = "threw" /\ ScrapingEnded
    /\ Len(retrieverConfig.sourceLinks) = MaxLinks
    /\ cachedContext # Null

-----------------------------------------------------------------------------
(* Properties of the scraping pass.                                        *)

\* the texts of the links k.. of the pass whose fetch gave a page, each
\* behind its [LINK] line, with a blank line between two of them
RECURSIVE FetchedTextsFrom(_, _)
FetchedTextsFrom(call, k) ==
    IF k > Len(call.links) THEN <<>>
    ELSE IF call.results[k] # "ok" THEN FetchedTextsFrom(call, k + 1)
    ELSE LET rest == FetchedTextsFrom(call, k + 1)
         IN  <<"[LINK] ">> \o call.links[k] \o <<" [/LINK]\n", "text">>
                \o (IF rest = <<>> THEN <<>> ELSE <<"\n\n">> \o rest)

\* C17: a pass launches the fetch of every filtered link at once, a fetch
\* that yields null leaves every other fetch able to resolve, and when the
\* pass ends the context is the [LINK]-prefixed texts of the links that were
\* fetched, joined by a blank line in the order of the filtered list (null
\* when there is none), in whatever order the fetches resolved.
C17_ContextIsFetchedTextsInListOrder ==
    /\ taskScrape # NotRun =>
        /\ DOMAIN taskScrape.results = DOMAIN taskScrape.links
        /\ taskScrape.links =
                FilterSourceLinks(taskScrape.input, whitelistedURLs,
                                  blacklistedURLs)
        /\ (\E k \in DOMAIN taskScrape.results :
                taskScrape.results[k] = "pending") => ENABLED FetchResolves
    /\ ScrapingEnded =>
        LET texts == FetchedTextsFrom(taskScrape, 1)
        IN  cachedContext = IF texts = <<>> THEN Null ELSE [text |-> texts]

\* a pass has ended in which the first fetch yielded null and two later
\* ones a page
C17_Witness ==
    /\ ScrapingEnded /\ Len(taskScrape.links) >= 3
    /\ taskScrape.results[1] = "null"
    /\ taskScrape.results[2] = "ok" /\ taskScrape.results[3] = "ok"
    /\ cachedContext # Null

\* a later fetch has resolved while an earlier one is pending
C17_ResolvedOutOfOrder ==
    /\ taskScrape # NotRun
    /\ \E j, k \in DOMAIN taskScrape.results :
            /\ j < k /\ taskScrape.results[j] = "pending"
            /\ taskScrape.results[k] # "pending"

NothingToScrape ==
    \/ Len(taskScrape.input) = 0
    \/ Len(taskScrape.links) = 0
    \/ \A k \in DOMAIN taskScrape.results : taskScrape.results[k] = "null"

GetContextReturns ==
    /\ reader.state = "waiting" /\ reader'.state = "returned"
    /\ reader.op = "getContext"

\* C18: the cached context is always null or a string that is not empty;
\* once the scraping pass has ended it is null exactly when the source list
\* was empty, every link was filtered out or every fetch yielded null; and
\* a getContext that returns while the context is null returns null.
C18_ContextIsNullOrNonEmpty ==
    /\ [](/\ cachedContext # [text |-> <<>>]
          /\ cachedContext = Null \/ Len(cachedContext.text) > 0
          /\ ScrapingEnded => (cachedContext = Null <=> NothingToScrape))
    /\ [][GetContextReturns /\ cachedContext = Null
            => reader'.value = Null]_vars

\* every fetch of a pass yielded null and getContext(true) returned null
C18_Witness ==
    /\ ScrapingEnded /\ Len(taskScrape.links) > 0
    /\ \A k \in DOMAIN taskScrape.results : taskScrape.results[k] = "null"
    /\ cachedContext = Null
    /\ reader.state = "returned" /\ reader.op = "getContext"
    /\ reader.enforcing /\ reader.value = Null

\* every link of a list that was not empty was filtered out
C18_EveryLinkFilteredOut ==
    /\ ScrapingEnded /\ cachedContext = Null
    /\ Len(taskScrape.input) > 0 /\ Len(taskScrape.links) = 0

-----------------------------------------------------------------------------
(* Properties of findJupyterBookLinks and normalizeUrl.                    *)

FindReturned == expandPc = "found"

\* new URL(url).hostname
Hostname(url) == url[2]

\* the chapter and the subsection of the page the links are looked for on
SourceMatch == ChapterMatch(Pathname(expandInput.pageUrl))

\* the path of a stylesheet, a figure or a page source, or of a download
IsResourcePath(path) ==
    \/ \E folder \in ResourceFolders : Includes(path, <<"/", folder, "/">>)
    \/ path[Len(path)] \in ResourceSuffixes

\* the path of the page of a chapter or of one of its subsections
IsPageOfChapter(path, chapter) ==
    \/ path = <<"/", "chapters", "/", chapter>>
    \/ /\ Len(path) = 6 /\ SubSeq(path, 1, 4) = <<"/", "chapters", "/", chapter>>
       /\ path[5] = "/" /\ path[6] \in Digits

HostIsTheBook(link) == <<Hostname(link)>> = expandInput.jupyterbookURL
NamesTheBook(link) == Includes(link, expandInput.jupyterbookURL)

\* every link returned is of the book (as OfTheBook says), is no resource,
\* and is on a chapters path of the chapter of the source page; a source
\* page off the chapters paths gives no link; from a subsection, the chapter
\* page and the subsections of the chapter the page links to are returned
FoundLinksAreOfTheChapter(OfTheBook(_)) ==
    FindReturned =>
        /\ \A i \in DOMAIN expandOut.links :
                LET link == expandOut.links[i]
                    match == ChapterMatch(Pathname(link))
                IN  /\ OfTheBook(link)
                    /\ ~IsResourcePath(Pathname(link))
                    /\ match # Null /\ SourceMatch # Null
                    /\ match.chapter = SourceMatch.chapter
        /\ SourceMatch = Null => expandOut.links = <<>>
        /\ /\ expandInput.response.ok
           /\ SourceMatch # Null /\ SourceMatch.subsection # ""
           => \A k \in DOMAIN expandInput.response.hrefs :
                LET link == normalizeUrl(ResolveHref(
                                expandInput.response.hrefs[k],
                                expandInput.pageUrl))
                IN  /\ HostIsTheBook(link)
                    /\ IsPageOfChapter(Pathname(link), SourceMatch.chapter)
                    => link \in Range(expandOut.links)

\* C23: every link findJupyterBookLinks returns is on a chapters/N[/M] path
\* of the book's own domain, is no resource, static, media or download path
\* and has the chapter number of the source page (from a subsection the
\* chapter page and the sibling subsections are returned); a source page
\* that is not on a chapters path gives no links.
C23_FoundLinksAreOfTheSameChapter == FoundLinksAreOfTheChapter(HostIsTheBook)

\* the same, a link counting as the book's when its URL contains the entry
\* of jupyterbookURLs
C23_FoundLinksNameTheBook == FoundLinksAreOfTheChapter(NamesTheBook)

\* from a subsection, the chapter page and a sibling were found and a page
\* of another chapter was left out
C23_SiblingsFound ==
    /\ FindReturned
    /\ expandInput.pageUrl = BookCh3s2
    /\ expandInput.response.ok
    /\ BookCh4s1 \in Range(expandInput.response.hrefs)
    /\ expandOut.links = <<BookCh3>>

Normalized == expandPc = "normalized"

\* url less its fragment
WithoutFragment(url) == SubSeq(url, 1, FirstOf(url, {"#"}) - 1)

\* url less its fragment and its query: scheme, host and path as written
UpToPath(url) == SubSeq(url, 1, FirstOf(url, {"?", "#"}) - 1)

\* b is a with one slash more at the end of a path that is not the root
OneTrailingSlashMore(a, b) ==
    /\ UpToPath(b) = UpToPath(a) \o <<"/">>
    /\ Len(UpToPath(a)) > 2
    /\ Search(a) = Search(b)

\* two URLs that differ at most by a fragment and by one trailing slash of a
\* path that is not the root
DifferByFragmentOrSlash(a, b) ==
    \/ WithoutFragment(a) = WithoutFragment(b)
    \/ OneTrailingSlashMore(a, b)
    \/ OneTrailingSlashMore(b, a)

\* C24: normalizeUrl gives two URLs one key exactly when they differ only by
\* a fragment and / or one trailing slash of a path that is not the root; it
\* leaves the slash of the root, the query and the case as they are; it is
\* idempotent; a string that does not parse as a URL is returned unchanged.
C24_NormalizeUrlKeys ==
    Normalized =>
        /\ CanParseUrl(expandInput.url) /\ CanParseUrl(expandInput.other)
            => (expandOut.key = expandOut.otherKey
                    <=> DifferByFragmentOrSlash(expandInput.url,
                                                expandInput.other))
        /\ CanParseUrl(expandInput.url)
            => /\ Pathname(expandInput.url) = <<"/">>
                    => Pathname(expandOut.key) = <<"/">>
               /\ Search(expandOut.key) = Search(expandInput.url)
               /\ Hostname(expandOut.key) = Hostname(expandInput.url)
               /\ Len(Pathname(expandOut.key)) > 1
                    => Pathname(expandOut.key)[2] = Pathname(expandInput.url)[2]
        /\ expandOut.again = expandOut.key
        /\ ~CanParseUrl(expandInput.url) => expandOut.key = expandInput.url

\* what the key is for every URL of the pool: the URL less its fragment and
\* less one slash at the end of a path of more than the root, with the host
\* in lower case and "/" for a missing path; the query and the case of the
\* path are kept, and a string that is no URL is returned as it is
C24_KeyStripsFragmentAndOneSlash ==
    Normalized =>
        IF ~CanParseUrl(expandInput.url)
        THEN expandOut.key = expandInput.url
        ELSE LET url == expandInput.url
                 path == Pathname(url)
             IN  /\ Hostname(expandOut.key) \in {Hostname(url), "site.com"}
                 /\ Search(expandOut.key) = Search(url)
                 /\ ~Includes(expandOut.key, <<"#">>)
                 /\ Pathname(expandOut.key) =
                        IF Len(path) > 1 /\ path[Len(path)] = "/"
                        THEN SubSeq(path, 1, Len(path) - 1) ELSE path

\* the example of the specification: https://site.com/a/ and
\* https://site.com/a#frag have one key
C24_ExampleSharesKey ==
    /\ Normalized
    /\ expandInput.url = <<"https://", "site.com", "/", "a", "/">>
    /\ expandInput.other = <<"https://", "site.com", "/", "a", "#", "frag">>
    /\ expandOut.key = expandOut.otherKey

\* a path that ends in two slashes: the key still ends in a slash
C24_NotIdempotent ==
    /\ Normalized
    /\ expandInput.url = <<"https://", "site.com", "/", "a", "/", "/">>
    /\ expandOut.again # expandOut.key

-----------------------------------------------------------------------------
(* Properties of the store.                                                *)

\* the setter called in this step, and the path it was called for
SetterCalled == storeCall'.count # storeCall.count

\* C25: a setter called for a path, or for a cell of a path, that has no
\* entry yet creates the entry and does not fail; no call removes or resets
\* an entry of a notebook or of a cell; a call for one path leaves the
\* entries of the other paths as they are, and a call for a cell leaves the
\* other cells of the path as they are.
C25_SettersCreateEntriesOnFirstTouch ==
    [][SetterCalled =>
        /\ storeCall'.outcome = "returned"
        /\ notebookStateByPath'[storeCall'.path] # NotRun
        /\ \A path \in Paths :
            /\ notebookStateByPath[path] # NotRun
                => /\ notebookStateByPath'[path] # NotRun
                   /\ \A cellId \in DOMAIN notebook :
                        notebookStateByPath[path].widgetStateByCellId[cellId]
                                # NotRun
                        => notebookStateByPath'[path]
                                .widgetStateByCellId[cellId] # NotRun
            /\ path # storeCall'.path
                => notebookStateByPath'[path] = notebookStateByPath[path]
      ]_vars

\* the same of the setters that go through cellData and of
\* attachNotebookMetadata; a setter of a notebook field called for a path
\* without an entry throws and changes nothing
C25_CellSettersCreateEntriesOnFirstTouch ==
    [][SetterCalled =>
        /\ storeCall'.outcome = "threw"
            <=> /\ storeCall'.setter \in
                    {"setNotebookConfig", "setNotebookParsedCells",
                     "setGlobalNotebookContextRetriever"}
                /\ notebookStateByPath[storeCall'.path] = NotRun
        /\ storeCall'.outcome = "threw"
            => notebookStateByPath' = notebookStateByPath
        /\ storeCall'.outcome = "returned"
            => notebookStateByPath'[storeCall'.path] # NotRun
        /\ \A path \in Paths :
            /\ notebookStateByPath[path] # NotRun
                => /\ notebookStateByPath'[path] # NotRun
                   /\ \A cellId \in DOMAIN notebook :
                        notebookStateByPath[path].widgetStateByCellId[cellId]
                                # NotRun
                        => notebookStateByPath'[path]
                                .widgetStateByCellId[cellId] # NotRun
            /\ path # storeCall'.path
                => notebookStateByPath'[path] = notebookStateByPath[path]
      ]_vars

\* setNotebookConfig was called for a path that had no entry
C25_NotebookSetterThrew ==
    /\ storeCall # NotRun
    /\ storeCall.setter = "setNotebookConfig"
    /\ storeCall.outcome = "threw"

\* the handler of NotebookActions.executed ran in this step
Executed == executions' # executions

\* the cell config the handler of the last event resolved and stored
RefreshedCellConfig ==
    storeEntry.widgetStateByCellId[lastExecuted.cell].cellConfig

\* C26: the handler of a cell-executed event attaches a widget only when the
\* stored notebook config is not null and has pluginEnabled, the cell config
\* it resolved has chatEnabled and chatProactive, and
\* preferences.proactiveEnabled is true (the preference of the session wins
\* over the rules); with a null config or pluginEnabled false it does
\* nothing: it resolves and stores no cell config and touches no cell.
C26_WidgetOnlyWhenEveryFlagAllows ==
    [][Executed =>
        /\ lastExecuted'.outcome = "attached" =>
            /\ storeEntry # NotRun
            /\ storeEntry.notebookConfig # Null
            /\ storeEntry.notebookConfig.pluginEnabled
            /\ storeEntry.notebookConfig.preferences.proactiveEnabled
            /\ LET resolved == applyConfigRules(notebook,
                                    lastExecuted'.cell - 1,
                                    storeEntry.notebookConfig.rules)
               IN  /\ resolved.chatEnabled /\ resolved.chatProactive
                   /\ storeEntry'.widgetStateByCellId[lastExecuted'.cell]
                        = [cellConfig |-> resolved]
        /\ lastExecuted'.outcome # "attached" => containers' = containers
        /\ /\ storeEntry # NotRun
           /\ \/ storeEntry.notebookConfig = Null
              \/ ~storeEntry.notebookConfig.pluginEnabled
           => /\ storeEntry' = storeEntry /\ containers' = containers
              /\ lastExecuted'.outcome = "disabled"
      ]_vars

\* the rules gave the cell chatEnabled and chatProactive, the preference of
\* the session is off, and the handler attached nothing
C26_Witness ==
    /\ lastExecuted # NotRun
    /\ lastExecuted.outcome = "declined"
    /\ storeEntry.notebookConfig.pluginEnabled
    /\ ~storeEntry.notebookConfig.preferences.proactiveEnabled
    /\ RefreshedCellConfig.chatEnabled /\ RefreshedCellConfig.chatProactive
    /\ containers[lastExecuted.cell] = 0

\* a widget was attached
C26_Attached ==
    /\ lastExecuted # NotRun
    /\ lastExecuted.outcome = "attached"
    /\ containers[lastExecuted.cell] = 1

\* an event was handled with pluginEnabled false
C26_Disabled ==
    /\ lastExecuted # NotRun
    /\ lastExecuted.outcome = "disabled"
    /\ storeEntry.notebookConfig # Null

\* C28: after any sequence of cell-executed events every cell's node holds
\* at most one Jupytutor container: a handler that attaches a widget to a
\* cell that holds the container of an earlier execution removes that
\* container before it appends its own.
C28_AtMostOneContainerPerCell ==
    /\ \A i \in DOMAIN containers : containers[i] <= 1
    /\ lastExecuted # NotRun /\ lastExecuted.outcome = "attached"
        => containers[lastExecuted.cell] = 1

\* a cell with a container was executed again and a widget attached again
C28_Witness ==
    /\ lastExecuted # NotRun
    /\ lastExecuted.outcome = "attached"
    /\ lastExecuted.removed
    /\ executions >= 2
    /\ containers[lastExecuted.cell] = 1

\* C29: the subscription of the store never gives 'jupytutor' metadata to a
\* notebook that has none: a change of the store's notebookConfig made while
\* the notebook holds no such metadata calls setMetadata not once and leaves
\* the notebook without it, and no other step of the plugin creates it;
\* only a change from outside the plugin does.
C29_SyncNeverCreatesMetadata ==
    [][/\ ToggleProactive /\ nbMetadata = NoMetadata
            => /\ syncLog'.writes = 0
               /\ nbMetadata' = NoMetadata
               /\ storeEntry'.notebookConfig # storeEntry.notebookConfig
       /\ ToggleProactive /\ syncLog'.writes > 0 => nbMetadata # NoMetadata
       /\ nbMetadata = NoMetadata /\ nbMetadata' # NoMetadata
            => MetadataChanged
      ]_vars

\* the store's notebookConfig was changed with the subscription connected
\* and no metadata in the notebook: nothing was written
C29_Witness ==
    /\ syncLog # NotRun
    /\ syncLog.origin = "store"
    /\ syncLog.listening /\ ~syncLog.held
    /\ syncLog.writes = 0
    /\ nbMetadata = NoMetadata
    /\ storeEntry.notebookConfig # loadConfigurationFromNotebookModel(nbMetadata)

\* the store's notebookConfig was changed and written to the notebook
C29_Written ==
    /\ syncLog # NotRun
    /\ syncLog.origin = "store"
    /\ syncLog.writes > 0
    /\ nbMetadata = ToMetadata(storeEntry.notebookConfig)

\* the metadata was changed from outside with the slot connected, or the
\* store's notebookConfig was changed with the subscription connected
SyncChainRan ==
    \/ MetadataChanged /\ listening
    \/ ToggleProactive /\ listening

\* C30, as the specification states it: after one change of the notebook's
\* 'jupytutor' metadata from outside, or one change of the store's
\* notebookConfig, the chain of the two listeners stops after finitely many
\* steps, and the store's notebookConfig is then the parse of the notebook's
\* metadata (of {} when the notebook has none).
C30_SyncEndsWithStoreEqualToParse ==
    [][SyncChainRan =>
        /\ syncLog'.quiesced
        /\ LoadSucceeds(nbMetadata') =>
                storeEntry'.notebookConfig =
                    loadConfigurationFromNotebookModel(nbMetadata')
      ]_vars

\* C30, as the code has it: the chain stops of itself after at most two
\* calls of setMetadata (the second when the parse of what the first wrote
\* fills in the configs of the default rules), and the store's notebookConfig
\* is then the parse of the notebook's metadata whenever the notebook holds
\* metadata that parses.
\* With no metadata in the notebook the store keeps the config it was given
\* and nothing is written; with a value that does not parse the store keeps
\* the config it had.
C30_SyncQuiesces ==
    [][SyncChainRan =>
        /\ syncLog'.quiesced
        /\ syncLog'.writes <= 2
        /\ ConfigParseSucceeds(nbMetadata') =>
                storeEntry'.notebookConfig = parseConfiguration(nbMetadata')
        /\ syncLog'.origin = "store" /\ ~syncLog'.held =>
                nbMetadata' = nbMetadata
        /\ syncLog'.origin = "metadata" /\ ~syncLog'.parsed =>
                storeEntry' = storeEntry
      ]_vars

\* the metadata was given a value from outside that parses to a config the
\* store did not hold: the subscription wrote the parsed config to the
\* notebook, the slot parsed it again, the subscription wrote that, and the
\* chain stopped there
C30_Witness ==
    /\ syncLog # NotRun
    /\ syncLog.origin = "metadata"
    /\ syncLog.parsed
    /\ syncLog.writes = 2 /\ syncLog.quiesced
    /\ nbMetadata = ToMetadata(storeEntry.notebookConfig)
    /\ storeEntry.notebookConfig = parseConfiguration(nbMetadata)

-----------------------------------------------------------------------------
(* Properties of the plugin.                                               *)

\* the notebook holds 'jupytutor' metadata that ConfigSchema does not parse
MetadataIsMalformed ==
    nbMetadata.shape # "undefined" /\ ~ConfigParseSucceeds(nbMetadata)

\* C10: while the notebook's jupytutor metadata is malformed, whether it was
\* so when the notebook was attached or became so later in place of a valid
\* enabled configuration, the handling of a cell execution attaches no widget.
C10_MalformedConfigDisablesPlugin ==
    [][executions' # executions /\ MetadataIsMalformed
            => lastExecuted'.outcome # "attached"]_vars

====
